---- MODULE Spec2Model ----
(***************************************************************************)
(* Book Log: reading-entry lifecycle and derivation engine.                *)
(*                                                                         *)
(* The model follows the Supabase build of the front end                   *)
(* (frontend/src/composables/useBookLog.js, second definition of           *)
(* useBookLog, lines 924-1936) and the two edge functions                  *)
(* (frontend/supabase/functions/isbn-lookup, book-search).  The tables     *)
(* books, calendar_overrides and progress_events are the record store.     *)
(* Every store call is taken to succeed and to be applied atomically, but  *)
(* for the upsert of calendar_overrides, which the store accepts only when *)
(* date alone is a conflict target; each handler runs to completion,       *)
(* trailing reloads included.                                              *)
(*                                                                         *)
(* Text is modelled as a sequence of one-character strings, dates as       *)
(* integers (ISO dates compare as strings the way these compare as         *)
(* numbers), SQL NULL / JS null as the sentinel Null.                      *)
(***************************************************************************)
EXTENDS Integers, Sequences, FiniteSets, TLC

VARIABLES
    books,              \* table books: isbn -> row (the owner's rows)
    overrides,          \* table calendar_overrides: date -> show
    progress_events,    \* table progress_events: set of [isbn, date, delta]
    pending,            \* backlog_order updates a reorder handler has issued and
                        \* not yet collected: [op, isbn, idx, state]
    dateIsUnique,       \* calendar_overrides has a unique constraint on date alone,
                        \* the conflict target toggleCalendarDay names (the table
                        \* as the migration creates it has PRIMARY KEY (date, user_id))
    isbn,               \* ref isbn: text of the ISBN field
    book,               \* ref book: the looked-up record shown, or NoBook
    error,              \* ref error: message shown, or NoError
    searchResults,      \* ref searchResults: the records the last search returned
    loading,            \* ref loading: a lookup, search or refresh is under way
    backlog,            \* ref backlog: isbns in the order loadBacklog returned them
    inProgress,         \* ref inProgress: isbn -> row as last loaded or patched
    finished,           \* ref finished: isbns of the rows loadFinished returned
    stats,              \* ref stats
    activityDates,      \* ref activityDates
    computedDates,      \* local `computed` of the last loadActivityDates
    monthSummary,       \* ref monthSummary
    calendarYear,       \* ref calendarYear
    calendarMonth,      \* ref calendarMonth, 0-based
    editBook,           \* ref editBook: isbn the finish modal is for, or NoId
    finishDate,         \* ref finishDate: date typed in the finish modal, or Null
    showFinishModal,    \* ref showFinishModal
    editBookForEdit,    \* ref editBookForEdit: the edit form, or NoEdit
    draggedIsbn,        \* ref draggedIsbn
    draggedSection,     \* ref draggedSection
    last,               \* history: the handler that ran last and what it did
    pageRaw,            \* parsePageInput: argument inputStr
    pageCur,            \* parsePageInput: argument currentPage
    pageResult,         \* parsePageInput: returned value (PageUnset before the call)
    editingPosIsbn,     \* BacklogPage ref editingPosIsbn: item whose position field
                        \* is open, or NoId
    editingPosValue,    \* BacklogPage ref editingPosValue
    posEditEscaped,     \* BacklogPage ref posEditEscaped
    inputRemoved,       \* the focused position field has just left the page (item
                        \* and section of the field, how it left), or NoEdit
    user,               \* useAuth ref user: the signed-in user, or NoId
    authLoading,        \* useAuth ref loading: the initial auth check is under way
    route,              \* the route shown, or NoId before the first navigation
    navigation          \* the navigation router.beforeEach is waiting on, or NoId

storeVars == <<books, overrides, progress_events, dateIsUnique, pending>>

lookupVars == <<isbn, book, error, searchResults, loading>>

listVars == <<backlog, inProgress, finished, stats>>

calendarVars == <<activityDates, computedDates, monthSummary, calendarYear,
                  calendarMonth>>

modalVars == <<editBook, finishDate, showFinishModal, editBookForEdit>>

dragVars == <<draggedIsbn, draggedSection>>

parseVars == <<pageRaw, pageCur, pageResult>>

posVars == <<editingPosIsbn, editingPosValue, posEditEscaped, inputRemoved>>

authVars == <<user, authLoading, route, navigation>>

vars == <<storeVars, lookupVars, listVars, calendarVars, modalVars, dragVars,
          last, parseVars, posVars, authVars>>

----------------------------------------------------------------------------
(* Bounds *)

MaxLen == 3         \* longest enumerated page-input text

DaysPerMonth == 3   \* days of a modelled month

MonthsPerYear == 2  \* months of a modelled year

MaxPage == 200      \* largest page number a progress update may store

\* SQL NULL, JavaScript null/undefined and the empty text of a date field
Null == -1

----------------------------------------------------------------------------
(* Text helpers: JavaScript string primitives used by the code *)

Digits == {"0", "1", "2", "3", "4", "5", "6", "7", "8", "9"}

IsDigit(c) == c \in Digits

\* \s of a JavaScript regular expression, restricted to the characters modelled
IsSpace(c) == c = " "

DigitVal(c) ==
    CASE c = "0" -> 0 [] c = "1" -> 1 [] c = "2" -> 2 [] c = "3" -> 3
      [] c = "4" -> 4 [] c = "5" -> 5 [] c = "6" -> 6 [] c = "7" -> 7
      [] c = "8" -> 8 [] c = "9" -> 9

RECURSIVE TrimStart(_)
TrimStart(s) ==
    IF s = <<>> THEN <<>>
    ELSE IF IsSpace(Head(s)) THEN TrimStart(Tail(s)) ELSE s

RECURSIVE TrimEnd(_)
TrimEnd(s) ==
    IF s = <<>> THEN <<>>
    ELSE IF IsSpace(s[Len(s)]) THEN TrimEnd(SubSeq(s, 1, Len(s) - 1)) ELSE s

\* String.prototype.trim
Trim(s) == TrimEnd(TrimStart(s))

\* s.replace(/\s/g, "")
RemoveSpaces(s) == SelectSeq(s, LAMBDA c : ~IsSpace(c))

\* s.split("+"): the pieces between the '+' signs, empty pieces included
RECURSIVE SplitPlusAcc(_, _, _)
SplitPlusAcc(s, cur, acc) ==
    IF s = <<>> THEN Append(acc, cur)
    ELSE IF Head(s) = "+" THEN SplitPlusAcc(Tail(s), <<>>, Append(acc, cur))
    ELSE SplitPlusAcc(Tail(s), Append(cur, Head(s)), acc)

SplitPlus(s) == SplitPlusAcc(s, <<>>, <<>>)

\* the longest prefix of s made of digits
RECURSIVE DigitPrefix(_)
DigitPrefix(s) ==
    IF s = <<>> \/ ~IsDigit(Head(s)) THEN <<>>
    ELSE <<Head(s)>> \o DigitPrefix(Tail(s))

RECURSIVE DecimalValue(_)
DecimalValue(ds) ==
    IF ds = <<>> THEN 0
    ELSE 10 * DecimalValue(SubSeq(ds, 1, Len(ds) - 1)) + DigitVal(ds[Len(ds)])

NaN == [nan |-> TRUE, val |-> 0]

\* parseInt(s, 10): leading white space skipped, an optional sign, then the
\* longest run of digits; whatever follows the digits is ignored; NaN when
\* there is no digit at that place.
ParseInt(s) ==
    LET t    == TrimStart(s)
        neg  == t # <<>> /\ Head(t) = "-"
        sgn  == t # <<>> /\ Head(t) \in {"+", "-"}
        body == IF sgn THEN Tail(t) ELSE t
        ds   == DigitPrefix(body)
    IN  IF ds = <<>> THEN NaN
        ELSE [nan |-> FALSE,
              val |-> IF neg THEN 0 - DecimalValue(ds) ELSE DecimalValue(ds)]

\* variant of MatchesPlusDigits that takes no text for a relative input
MatchesPlusDigitsNever(s) == FALSE

\* /^\+\s*\d+$/
MatchesPlusDigits(s) ==
    /\ s # <<>>
    /\ Head(s) = "+"
    /\ LET rest == TrimStart(Tail(s))
       IN  rest # <<>> /\ \A i \in 1..Len(rest) : IsDigit(rest[i])

\* /^[\d\s+]+$/
MatchesDigitsSpacesPlus(s) ==
    /\ s # <<>>
    /\ \A i \in 1..Len(s) : IsDigit(s[i]) \/ IsSpace(s[i]) \/ s[i] = "+"

RECURSIVE SumVals(_)
SumVals(ps) == IF ps = <<>> THEN 0 ELSE Head(ps).val + SumVals(Tail(ps))

----------------------------------------------------------------------------
(* ProgressTracker: parsePageInput *)

InvalidPage == [ok |-> FALSE, page |-> 0]

ValidPage(n) == [ok |-> TRUE, page |-> n]

PageUnset == [ok |-> FALSE, page |-> -1]

\* currentPage ?? 0
OrZero(p) == IF p = Null THEN 0 ELSE p

parsePageInput(inputStr, currentPage) ==
    LET raw == Trim(inputStr)
        cur == OrZero(currentPage)
    IN  IF raw = <<>> THEN InvalidPage
        ELSE IF MatchesPlusDigits(raw)
        THEN ValidPage(cur + ParseInt(Tail(RemoveSpaces(raw))).val)
        ELSE LET parts == [i \in 1..Len(SplitPlus(raw)) |->
                              ParseInt(Trim(SplitPlus(raw)[i]))]
                 page  == ParseInt(raw)
             IN  IF MatchesDigitsSpacesPlus(raw)
                    /\ \A i \in 1..Len(parts) : ~parts[i].nan
                 THEN ValidPage(SumVals(parts))
                 ELSE IF ~page.nan /\ page.val >= 0 THEN ValidPage(page.val)
                 ELSE InvalidPage

----------------------------------------------------------------------------
(* Calendar: dates are day numbers; a month is DaysPerMonth consecutive    *)
(* days and a year MonthsPerYear consecutive months.                       *)

\* 0-based index of the month of date d, counted from the first modelled month
MonthIndex(d) == (d - 1) \div DaysPerMonth

\* `${year}-${month}-01` and the last day of that month
StartOfMonth(y, m) == (y * MonthsPerYear + m) * DaysPerMonth + 1

EndOfMonth(y, m) == (y * MonthsPerYear + m + 1) * DaysPerMonth

YearOf(d) == MonthIndex(d) \div MonthsPerYear

\* month of date d within its year, 0-based as Date.getMonth()
MonthOf(d) == MonthIndex(d) % MonthsPerYear

\* new Date().toISOString().slice(0, 10): the second day of the second month
\* of the second modelled year
Today == MonthsPerYear * DaysPerMonth + DaysPerMonth + 2

Yesterday == Today - 1

Tomorrow == Today + 1

LastMonthDay == StartOfMonth(YearOf(Today), MonthOf(Today)) - 1

NextMonthDay == EndOfMonth(YearOf(Today), MonthOf(Today)) + 1

Dates == {LastMonthDay, Yesterday, Today, Tomorrow, NextMonthDay}

----------------------------------------------------------------------------
(* The record store *)

NoStatus == "none"      \* status IS NULL

Statuses == {NoStatus, "backlog", "in_progress", "finished"}

Kinds == {"book", "article", "poem"}

NoId == ""

NoBook == [isbn |-> NoId]

NoError == ""

NoEdit == [isbn |-> NoId]

\* a row of table books as the insert of submitArticle/submitPoem leaves it
NewRow(kind, title, status, pages) ==
    [ entry_type         |-> kind,
      title              |-> title,
      status             |-> status,
      number_of_pages    |-> pages,
      backlog_order      |-> Null,
      backlog_date       |-> Today,
      started_date       |-> Null,
      finished_date      |-> Null,
      last_progress_date |-> Null,
      current_page       |-> Null ]

RECURSIVE Perms(_)
Perms(S) ==
    IF S = {} THEN {<<>>}
    ELSE UNION {{<<x>> \o q : q \in Perms(S \ {x})} : x \in S}

RECURSIVE SumOver(_, _)
SumOver(S, f) ==
    IF S = {} THEN 0
    ELSE LET x == CHOOSE y \in S : TRUE IN f[x] + SumOver(S \ {x}, f)

SeqToSet(q) == {q[i] : i \in 1..Len(q)}

WithStatus(b, st) == {i \in DOMAIN b : b[i].status = st}

\* ORDER BY backlog_order ASC: NULLs last, rows of equal key in any order
OrderedBefore(x, y) == (y = Null) \/ (x # Null /\ x <= y)

\* loadBacklog: the lists the query may return
loadBacklog(b) ==
    {q \in Perms(WithStatus(b, "backlog")) :
        \A i, j \in 1..Len(q) :
            i < j => OrderedBefore(b[q[i]].backlog_order, b[q[j]].backlog_order)}

\* loadInProgress (the order of the list, by started_date, is not modelled)
loadInProgress(b) == [i \in WithStatus(b, "in_progress") |-> b[i]]

\* loadFinished (the order of the list, by finished_date, is not modelled)
loadFinished(b) == WithStatus(b, "finished")

\* typeof item.number_of_pages === "number" ? item.number_of_pages : 0
PagesOrZero(r) == IF r.number_of_pages = Null THEN 0 ELSE r.number_of_pages

loadStats(b) ==
    LET startOfMonth == StartOfMonth(YearOf(Today), MonthOf(Today))
        startOfYear  == StartOfMonth(YearOf(Today), 0)
        fin          == WithStatus(b, "finished")
        inMonth      == {i \in fin : b[i].finished_date # Null
                                     /\ b[i].finished_date >= startOfMonth}
        inYear       == {i \in fin : b[i].finished_date # Null
                                     /\ b[i].finished_date >= startOfYear}
        pages        == [i \in DOMAIN b |-> PagesOrZero(b[i])]
    IN  [ pages_this_month          |-> SumOver(inMonth, pages),
          pages_this_year           |-> SumOver(inYear, pages),
          pages_recorded_this_month |-> 0,
          pages_recorded_this_year  |-> 0,
          items_finished_count      |-> Cardinality(fin) ]

DateKeyValues(r) == {r.started_date, r.finished_date, r.last_progress_date} \ {Null}

\* variant of ComputedDates without the comparison with today
ComputedDatesUnfiltered(b) == UNION {DateKeyValues(b[i]) : i \in DOMAIN b}

\* loadActivityDates, first half: the local set `computed`
ComputedDates(b) ==
    {d \in UNION {DateKeyValues(b[i]) : i \in DOMAIN b} : d <= Today}

\* variant of ApplyOverrides that adds the shown dates and never deletes
ApplyOverridesShowOnly(computed, ov) == computed \cup {d \in DOMAIN ov : ov[d]}

\* loadActivityDates, second half: the overrides applied to `computed`
ApplyOverrides(computed, ov) ==
    (computed \cup {d \in DOMAIN ov : ov[d]}) \ {d \in DOMAIN ov : ~ov[d]}

loadActivityDates(b, ov) == ApplyOverrides(ComputedDates(b), ov)

loadMonthSummary(b, year, month) ==
    LET startDate == StartOfMonth(year, month)
        endDate   == EndOfMonth(year, month)
        items     == {i \in WithStatus(b, "finished") :
                         /\ b[i].finished_date # Null
                         /\ b[i].finished_date >= startDate
                         /\ b[i].finished_date <= endDate}
        pages     == [i \in DOMAIN b |-> PagesOrZero(b[i])]
    IN  [ pages_read     |-> SumOver(items, pages),
          pages_recorded |-> 0,
          items_finished |-> items,
          dates          |-> {d \in UNION {DateKeyValues(b[i]) : i \in DOMAIN b} :
                                 d >= startDate /\ d <= endDate} ]

NoStats ==
    [ pages_this_month |-> 0, pages_this_year |-> 0,
      pages_recorded_this_month |-> 0, pages_recorded_this_year |-> 0,
      items_finished_count |-> 0 ]

NoMonthSummary ==
    [pages_read |-> 0, pages_recorded |-> 0, items_finished |-> {}, dates |-> {}]

\* the part of loadActivityDates that writes the client state
ReloadActivityDates ==
    /\ computedDates' = ComputedDates(books')
    /\ activityDates' = loadActivityDates(books', overrides')

\* refreshReadingLog: the five loads, each against the store as the handler left it
refreshReadingLog ==
    /\ backlog' \in loadBacklog(books')
    /\ inProgress' = loadInProgress(books')
    /\ finished' = loadFinished(books')
    /\ stats' = loadStats(books')
    /\ ReloadActivityDates

NoLast == [op |-> "none"]

----------------------------------------------------------------------------
(* Store primitives *)

\* supabase.from("books").update(patch).eq("isbn", id): the fields of patch
\* overwrite those of the row; no row, no write and no error
UpdateWhereIsbn(b, id, patch) ==
    IF id \in DOMAIN b
    THEN [b EXCEPT ![id] = [f \in DOMAIN b[id] |->
                               IF f \in DOMAIN patch THEN patch[f] ELSE b[id][f]]]
    ELSE b

\* supabase.from("books").insert(row)
InsertRow(b, id, row) == [i \in DOMAIN b \cup {id} |-> IF i = id THEN row ELSE b[i]]

\* supabase.from("books").delete().eq("isbn", id)
DeleteWhereIsbn(b, id) == [i \in DOMAIN b \ {id} |-> b[i]]

\* supabase.from("calendar_overrides").upsert({date, show}, {onConflict: "date"})
UpsertOverride(ov, d, show) ==
    [x \in DOMAIN ov \cup {d} |-> IF x = d THEN show ELSE ov[x]]

----------------------------------------------------------------------------
(* MetadataResolver: the isbn-lookup edge function and its caller *)

\* isbn.replace(/[\s-]/g, "")
CleanIsbn(s) == SelectSeq(s, LAMBDA c : ~(IsSpace(c) \/ c = "-"))

\* /^\d+$/
MatchesDigits(s) == s # <<>> /\ \A i \in 1..Len(s) : IsDigit(s[i])

RECURSIVE Join(_)
Join(s) == IF s = <<>> THEN "" ELSE Head(s) \o Join(Tail(s))

MinIsbnLen == 10

\* variant of CanSubmitText that lets every text through
CanSubmitTextAny(text) == TRUE

\* the test of canSubmit, for the text the ISBN field holds
CanSubmitText(text) ==
    LET cleaned == CleanIsbn(text)
    IN  Len(cleaned) >= MinIsbnLen /\ MatchesDigits(cleaned)

canSubmit == CanSubmitText(isbn)

\* what Google Books answers: an HTTP error, no item, an item with or
\* without a page count
GoogleOutcomes == {"error", "empty", "item", "item_no_pages"}

GooglePages == 320

\* what Open Library answers for number_of_pages: nothing, or a count
OpenLibraryOutcomes == {Null, 300}

\* extractBook, for the fields the log uses
extractBook(gb, id) ==
    [ isbn            |-> id,
      title           |-> <<"E", "x">>,
      number_of_pages |-> IF gb = "item" THEN GooglePages ELSE Null ]

\* variant of IsbnLookupFunction that reports not found without a fetch
IsbnLookupFunctionNoFetch(rawIsbn, gb, ol) ==
    [ok |-> FALSE, error |-> "Book not found for this ISBN", gbCalls |-> 0, olCalls |-> 0]

\* Deno.serve handler of isbn-lookup: rawIsbn is the last path segment
IsbnLookupFunction(rawIsbn, gb, ol) ==
    LET id == CleanIsbn(rawIsbn)
    IN  IF rawIsbn = <<>> THEN
            [ok |-> FALSE, error |-> "ISBN parameter required", gbCalls |-> 0, olCalls |-> 0]
        ELSE IF ~MatchesDigits(id) THEN
            [ok |-> FALSE, error |-> "Invalid ISBN", gbCalls |-> 0, olCalls |-> 0]
        ELSE IF gb = "error" THEN
            [ok |-> FALSE, error |-> "Google Books API error", gbCalls |-> 1, olCalls |-> 0]
        ELSE IF gb = "empty" THEN
            [ok |-> FALSE, error |-> "Book not found for this ISBN", gbCalls |-> 1, olCalls |-> 0]
        ELSE LET result == extractBook(gb, Join(id))
             IN  IF result.number_of_pages = Null
                 THEN [ok |-> TRUE,
                       data |-> [result EXCEPT !.number_of_pages = ol],
                       gbCalls |-> 1, olCalls |-> 1]
                 ELSE [ok |-> TRUE, data |-> result, gbCalls |-> 1, olCalls |-> 0]

\* v-model of the ISBN field
TypeIsbn(text) ==
    /\ isbn' = text
    /\ last' = [op |-> "typeIsbn"]
    /\ UNCHANGED <<storeVars, book, error, searchResults, loading, listVars, calendarVars, modalVars,
                   dragVars, parseVars, posVars, authVars>>

\* the body of lookup() for the text the ISBN field holds when it runs
LookupWith(text, via, gb, ol) ==
    IF ~CanSubmitText(text)
    THEN /\ last' = [ op      |-> "lookupIgnored",
                      via     |-> via,
                      text    |-> CleanIsbn(text),
                      isbn    |-> Join(CleanIsbn(text)),
                      gbCalls |-> 0,
                      olCalls |-> 0 ]
         /\ UNCHANGED <<storeVars, book, error, listVars, activityDates, computedDates>>
    ELSE LET cleaned == CleanIsbn(text)
             resp    == IsbnLookupFunction(cleaned, gb, ol)
         IN  /\ book' = IF resp.ok THEN resp.data ELSE NoBook
             /\ error' = IF resp.ok THEN NoError ELSE resp.error
             /\ UNCHANGED storeVars
             /\ IF resp.ok
                THEN refreshReadingLog
                ELSE UNCHANGED <<listVars, activityDates, computedDates>>
             /\ last' = [ op      |-> "lookup",
                          via     |-> via,
                          text    |-> cleaned,
                          isbn    |-> Join(cleaned),
                          cached  |-> Join(cleaned) \in DOMAIN books,
                          ok      |-> resp.ok,
                          gbCalls |-> resp.gbCalls,
                          olCalls |-> resp.olCalls,
                          \* this lookup directly follows a failed lookup of the same id
                          retry   |-> /\ last.op = "lookup"
                                      /\ last.isbn = Join(cleaned)
                                      /\ ~last.ok ]

\* submit of the ISBN form
lookup(gb, ol) ==
    /\ LookupWith(isbn, "form", gb, ol)
    /\ UNCHANGED <<isbn, searchResults, loading, monthSummary, calendarYear, calendarMonth,
                   modalVars, dragVars, parseVars, posVars, authVars>>

clearBook ==
    /\ book # NoBook
    /\ book' = NoBook
    /\ last' = [op |-> "clearBook"]
    /\ UNCHANGED <<storeVars, isbn, error, searchResults, loading, listVars, calendarVars, modalVars,
                   dragVars, parseVars, posVars, authVars>>

\* the texts of the ids the model uses: `${book.value.isbn}` and
\* `isbn.value = item.isbn` hand a stored id on as the text it is
IdTexts ==
    { <<"9", "7", "8", "0", "1", "4", "0", "3", "2", "8", "7", "2", "1">>,
      <<"9", "7", "8", "0", "3", "0", "6", "4", "0", "6", "1", "5", "7">>,
      <<"0", "8", "0", "4", "4", "2", "9", "5", "7", "X">>,
      <<"1", "2", "3", "4", "5">>,
      <<"a", "r", "t", "i", "c", "l", "e", "-", "1">>,
      <<"a", "r", "t", "i", "c", "l", "e", "-", "2">>,
      <<"a", "r", "t", "i", "c", "l", "e", "-", "3">> }

Chars(id) == CHOOSE t \in IdTexts : Join(t) = id

\* the Refresh metadata button of the record shown
refreshMetadata(gb, ol) ==
    /\ book.isbn # NoId
    /\ LET resp == IsbnLookupFunction(Chars(book.isbn), gb, ol)
       IN  /\ book' = IF resp.ok THEN resp.data ELSE book
           /\ error' = IF resp.ok THEN NoError ELSE resp.error
           /\ UNCHANGED storeVars
           /\ IF resp.ok
              THEN refreshReadingLog
              ELSE UNCHANGED <<listVars, activityDates, computedDates>>
           /\ last' = [ op      |-> "refreshMetadata",
                        via     |-> "refresh",
                        text    |-> Chars(book.isbn),
                        isbn    |-> book.isbn,
                        cached  |-> book.isbn \in DOMAIN books,
                        ok      |-> resp.ok,
                        gbCalls |-> resp.gbCalls,
                        olCalls |-> resp.olCalls,
                        shown   |-> book ]
    /\ UNCHANGED <<isbn, searchResults, loading, monthSummary, calendarYear, calendarMonth,
                   modalVars, dragVars, parseVars, posVars, authVars>>

\* click on an item of the recently-looked-up list; the list shows rows of
\* table books
lookupFromHistory(item, gb, ol) ==
    /\ item \in DOMAIN books
    /\ isbn' = Chars(item)
    /\ LookupWith(Chars(item), "history", gb, ol)
    /\ UNCHANGED <<searchResults, loading, monthSummary, calendarYear, calendarMonth,
                   modalVars, dragVars, parseVars, posVars, authVars>>

\* a provider's search answers "error" (an HTTP error), "empty" (nothing) or
\* "found" (some records)

\* the records of a Google Books answer, after isbnFromGoogleItem and
\* extractBook: with an ISBN-13, with an ISBN-10 that ends in X, with none
GoogleResults ==
    { [ isbn  |-> <<"9", "7", "8", "0", "3", "0", "6", "4", "0", "6", "1", "5", "7">>,
        title |-> <<"G", "1">>, number_of_pages |-> GooglePages ],
      [ isbn  |-> <<"0", "8", "0", "4", "4", "2", "9", "5", "7", "X">>,
        title |-> <<"G", "2">>, number_of_pages |-> Null ],
      [ isbn  |-> <<>>, title |-> <<"G", "3">>, number_of_pages |-> Null ] }

\* the records searchOpenLibrary makes of an Open Library answer
OpenLibraryResults ==
    { [ isbn  |-> <<"9", "7", "8", "0", "1", "4", "0", "3", "2", "8", "7", "2", "1">>,
        title |-> <<"O", "1">>, number_of_pages |-> Null ] }

\* searchOpenLibrary: [] on an HTTP error or an exception
searchOpenLibrary(ol) == IF ol = "found" THEN OpenLibraryResults ELSE {}

\* Deno.serve handler of book-search, the copy with the Open Library fallback
BookSearchWithFallback(gb, ol) ==
    LET results == IF gb = "found" THEN GoogleResults ELSE {}
    IN  IF results = {}
        THEN [ok |-> TRUE, results |-> searchOpenLibrary(ol), gbCalls |-> 1, olCalls |-> 1]
        ELSE [ok |-> TRUE, results |-> results, gbCalls |-> 1, olCalls |-> 0]

\* Deno.serve handler of book-search, the copy under frontend/supabase
BookSearchGoogleOnly(gb, ol) ==
    IF gb = "error"
    THEN [ok |-> FALSE, error |-> "Google Books API error", results |-> {},
          gbCalls |-> 1, olCalls |-> 0]
    ELSE [ok |-> TRUE, results |-> IF gb = "found" THEN GoogleResults ELSE {},
          gbCalls |-> 1, olCalls |-> 0]

\* submit of the title/author form, a title or an author typed; copy names
\* the copy of the function in the repository that the project has deployed
searchByTitle(copy, gb, ol) ==
    /\ LET resp == IF copy = "fallback" THEN BookSearchWithFallback(gb, ol)
                   ELSE BookSearchGoogleOnly(gb, ol)
       IN  /\ book' = NoBook
           /\ searchResults' = IF resp.ok THEN resp.results ELSE {}
           /\ error' = IF ~resp.ok THEN resp.error
                       ELSE IF resp.results = {} THEN "No books found for that search."
                       ELSE NoError
           /\ last' = [ op      |-> "searchByTitle",
                        copy    |-> copy,
                        gb      |-> gb,
                        ok      |-> resp.ok,
                        gbCalls |-> resp.gbCalls,
                        olCalls |-> resp.olCalls ]
    /\ UNCHANGED <<storeVars, isbn, loading, listVars, calendarVars, modalVars,
                   dragVars, parseVars, posVars, authVars>>

\* click on a search result
selectSearchResult(result, gb, ol) ==
    /\ result \in searchResults
    /\ searchResults' = {}
    /\ IF result.isbn # <<>>
       THEN /\ isbn' = result.isbn
            /\ LookupWith(result.isbn, "search", gb, ol)
       ELSE /\ book' = [ isbn |-> NoId, title |-> result.title,
                         number_of_pages |-> result.number_of_pages ]
            /\ last' = [op |-> "selectSearchResult", isbn |-> NoId]
            /\ UNCHANGED <<storeVars, isbn, error, listVars, activityDates,
                           computedDates>>
    /\ UNCHANGED <<loading, monthSummary, calendarYear, calendarMonth, modalVars,
                   dragVars, parseVars, posVars, authVars>>

----------------------------------------------------------------------------
(* LifecycleEngine *)

addToBacklog ==
    /\ book.isbn # NoId
    /\ books' = UpdateWhereIsbn(books, book.isbn,
                                [status |-> "backlog", backlog_date |-> Today])
    /\ book' = NoBook
    /\ UNCHANGED <<overrides, progress_events, dateIsUnique, pending>>
    /\ refreshReadingLog
    /\ last' = [ op     |-> "addToBacklog",
                 isbn   |-> book.isbn,
                 stored |-> book.isbn \in DOMAIN books,
                 before |-> IF book.isbn \in DOMAIN books
                            THEN books[book.isbn] ELSE NoBook ]
    /\ UNCHANGED <<isbn, error, searchResults, loading, monthSummary,
                   calendarYear, calendarMonth, modalVars, dragVars, parseVars, posVars, authVars>>

StartPatch == [status |-> "in_progress", current_page |-> 0, started_date |-> Today]

\* the Start reading button of a backlog item
startReading(isbnVal) ==
    /\ isbnVal \in SeqToSet(backlog)
    /\ books' = UpdateWhereIsbn(books, isbnVal, StartPatch)
    /\ UNCHANGED <<overrides, progress_events, dateIsUnique, pending>>
    /\ refreshReadingLog
    /\ last' = [op |-> "startReading", isbn |-> isbnVal, before |-> books[isbnVal]]
    /\ UNCHANGED <<lookupVars, monthSummary,
                   calendarYear, calendarMonth, modalVars, dragVars, parseVars, posVars, authVars>>

startReadingFromLookup ==
    /\ book.isbn # NoId
    /\ books' = UpdateWhereIsbn(books, book.isbn, StartPatch)
    /\ book' = NoBook
    /\ UNCHANGED <<overrides, progress_events, dateIsUnique, pending>>
    /\ refreshReadingLog
    /\ last' = [ op     |-> "startReadingFromLookup",
                 isbn   |-> book.isbn,
                 stored |-> book.isbn \in DOMAIN books,
                 before |-> IF book.isbn \in DOMAIN books
                            THEN books[book.isbn] ELSE NoBook ]
    /\ UNCHANGED <<isbn, error, searchResults, loading, monthSummary,
                   calendarYear, calendarMonth, modalVars, dragVars, parseVars, posVars, authVars>>

\* the Mark finished button of an in-progress item
openFinishModal(isbnVal) ==
    /\ isbnVal \in DOMAIN inProgress
    /\ editBook' = isbnVal
    /\ finishDate' = Today
    /\ showFinishModal' = TRUE
    /\ last' = [op |-> "openFinishModal", isbn |-> isbnVal]
    /\ UNCHANGED <<storeVars, lookupVars, listVars, calendarVars, editBookForEdit,
                   dragVars, parseVars, posVars, authVars>>

markFinishedFromLookup ==
    /\ book.isbn # NoId
    /\ editBook' = book.isbn
    /\ finishDate' = Today
    /\ showFinishModal' = TRUE
    /\ last' = [op |-> "markFinishedFromLookup", isbn |-> book.isbn]
    /\ UNCHANGED <<storeVars, lookupVars, listVars, calendarVars, editBookForEdit,
                   dragVars, parseVars, posVars, authVars>>

\* v-model="finishDate" of the date field of the finish modal (Null: emptied)
TypeFinishDate(d) ==
    /\ showFinishModal
    /\ finishDate' = d
    /\ last' = [op |-> "typeFinishDate"]
    /\ UNCHANGED <<storeVars, lookupVars, listVars, calendarVars, editBook,
                   showFinishModal, editBookForEdit, dragVars, parseVars, posVars, authVars>>

\* the Save button of the finish modal
confirmMarkFinished ==
    /\ showFinishModal
    /\ IF editBook = NoId \/ finishDate = Null
       THEN /\ last' = [ op |-> "confirmMarkFinished", isbn |-> editBook,
                         status |-> "finished", finished_date |-> finishDate,
                         wrote |-> FALSE,
                         before |-> IF editBook \in DOMAIN books
                                    THEN books[editBook].status ELSE NoStatus ]
            /\ UNCHANGED <<storeVars, lookupVars, listVars, calendarVars, modalVars,
                           dragVars, parseVars, posVars, authVars>>
       ELSE /\ books' = UpdateWhereIsbn(books, editBook,
                            [status |-> "finished", finished_date |-> finishDate])
            /\ showFinishModal' = FALSE
            /\ editBook' = NoId
            /\ UNCHANGED <<overrides, progress_events, dateIsUnique, pending>>
            /\ refreshReadingLog
            /\ last' = [ op |-> "confirmMarkFinished", isbn |-> editBook,
                         status |-> "finished", finished_date |-> finishDate,
                         wrote |-> editBook \in DOMAIN books,
                         before |-> IF editBook \in DOMAIN books
                                    THEN books[editBook].status ELSE NoStatus ]
            /\ UNCHANGED <<lookupVars, monthSummary,
                           calendarYear, calendarMonth, finishDate, editBookForEdit,
                           dragVars, parseVars, posVars, authVars>>

closeFinishModal ==
    /\ showFinishModal
    /\ showFinishModal' = FALSE
    /\ last' = [op |-> "closeFinishModal"]
    /\ UNCHANGED <<storeVars, lookupVars, listVars, calendarVars, editBook,
                   finishDate, editBookForEdit, dragVars, parseVars, posVars, authVars>>

\* the Remove button of a backlog or in-progress item, confirm() accepted
removeFromList(isbnVal) ==
    /\ isbnVal \in SeqToSet(backlog) \cup DOMAIN inProgress
    /\ books' = UpdateWhereIsbn(books, isbnVal, [status |-> NoStatus])
    /\ UNCHANGED <<overrides, progress_events, dateIsUnique, pending>>
    /\ refreshReadingLog
    /\ last' = [ op |-> "removeFromList", isbn |-> isbnVal, before |-> books[isbnVal],
                 others |-> [i \in DOMAIN books \ {isbnVal} |-> books[i]] ]
    /\ UNCHANGED <<lookupVars, monthSummary,
                   calendarYear, calendarMonth, modalVars, dragVars, parseVars, posVars, authVars>>

----------------------------------------------------------------------------
(* ProgressTracker: updateProgress *)

\* variant of updateProgress in which an input that does not parse is stored
\* as page 0
updateProgressInvalidAsZero(isbnVal, currentPageInput) ==
    /\ isbnVal \in DOMAIN inProgress
    /\ isbnVal \in DOMAIN books
    /\ LET currentPageCurrent == OrZero(inProgress[isbnVal].current_page)
           parsed == parsePageInput(currentPageInput, currentPageCurrent)
           page == IF parsed.ok THEN parsed.page ELSE 0
       IN  /\ page >= 0 /\ page <= MaxPage
           /\ books' = UpdateWhereIsbn(books, isbnVal,
                          [current_page |-> page, last_progress_date |-> Today])
           /\ UNCHANGED <<overrides, progress_events, dateIsUnique, pending>>
           /\ inProgress' = [inProgress EXCEPT ![isbnVal] = books'[isbnVal]]
           /\ ReloadActivityDates
           /\ last' = [ op |-> "updateProgress", isbn |-> isbnVal,
                        input |-> currentPageInput, wrote |-> TRUE,
                        from |-> OrZero(books[isbnVal].current_page), to |-> page ]
           /\ UNCHANGED <<backlog, finished, stats>>
    /\ UNCHANGED <<lookupVars, monthSummary, calendarYear, calendarMonth, modalVars,
                   dragVars, parseVars, posVars, authVars>>

\* @change of the page field of an in-progress item: the text typed and the
\* item's current_page as the list shows it
updateProgress(isbnVal, currentPageInput) ==
    /\ isbnVal \in DOMAIN inProgress
    /\ LET currentPageCurrent == OrZero(inProgress[isbnVal].current_page)
           page == parsePageInput(currentPageInput, currentPageCurrent)
       IN  IF ~page.ok \/ page.page < 0 \/ isbnVal \notin DOMAIN books
           THEN /\ last' = [ op |-> "updateProgress", isbn |-> isbnVal,
                             input |-> currentPageInput,
                             wrote |-> FALSE, from |-> Null, to |-> Null ]
                /\ UNCHANGED <<storeVars, listVars, activityDates, computedDates>>
           ELSE /\ page.page <= MaxPage
                /\ books' = UpdateWhereIsbn(books, isbnVal,
                               [current_page |-> page.page, last_progress_date |-> Today])
                /\ UNCHANGED <<overrides, progress_events, dateIsUnique, pending>>
                /\ inProgress' = [inProgress EXCEPT ![isbnVal] = books'[isbnVal]]
                /\ ReloadActivityDates
                /\ last' = [ op |-> "updateProgress", isbn |-> isbnVal,
                             input |-> currentPageInput,
                             wrote |-> TRUE,
                             from |-> OrZero(books[isbnVal].current_page),
                             to |-> page.page ]
                /\ UNCHANGED <<backlog, finished, stats>>
    /\ UNCHANGED <<lookupVars, monthSummary, calendarYear, calendarMonth, modalVars,
                   dragVars, parseVars, posVars, authVars>>

----------------------------------------------------------------------------
(* ActivityCalendar *)

\* variant of ToggleValue that always writes show: true
ToggleValueAlwaysShow(currentlyActive) == TRUE

\* the value toggleCalendarDay writes for a day shown as currentlyActive
ToggleValue(currentlyActive) == ~currentlyActive

\* click on a calendar cell
toggleCalendarDay(dateStr) ==
    /\ LET currentlyActive == dateStr \in activityDates
       IN  /\ overrides' = IF dateIsUnique
                         THEN UpsertOverride(overrides, dateStr,
                                             ToggleValue(currentlyActive))
                         ELSE overrides    \* the store answers with an error
           /\ last' = [ op     |-> "toggleCalendarDay",
                        date   |-> dateStr,
                        \* effective membership before this toggle
                        before |-> dateStr \in loadActivityDates(books, overrides),
                        \* this toggle directly follows a toggle of the same date
                        again  |-> last.op = "toggleCalendarDay" /\ last.date = dateStr,
                        \* effective membership before that earlier toggle
                        first  |-> IF last.op = "toggleCalendarDay" /\ last.date = dateStr
                                   THEN last.before ELSE FALSE ]
    /\ UNCHANGED <<books, progress_events, dateIsUnique, pending>>
    /\ ReloadActivityDates
    /\ UNCHANGED <<lookupVars, listVars, monthSummary, calendarYear, calendarMonth,
                   modalVars, dragVars, parseVars, posVars, authVars>>

calendarPrevMonth ==
    /\ calendarYear > 0 \/ calendarMonth > 0
    /\ IF calendarMonth = 0
       THEN calendarMonth' = MonthsPerYear - 1 /\ calendarYear' = calendarYear - 1
       ELSE calendarMonth' = calendarMonth - 1 /\ calendarYear' = calendarYear
    /\ monthSummary' = loadMonthSummary(books, calendarYear', calendarMonth')
    /\ last' = [op |-> "calendarPrevMonth"]
    /\ UNCHANGED <<storeVars, lookupVars, listVars, activityDates, computedDates,
                   modalVars, dragVars, parseVars, posVars, authVars>>

calendarNextMonth ==
    /\ calendarYear <= YearOf(Today)
    /\ IF calendarMonth = MonthsPerYear - 1
       THEN calendarMonth' = 0 /\ calendarYear' = calendarYear + 1
       ELSE calendarMonth' = calendarMonth + 1 /\ calendarYear' = calendarYear
    /\ monthSummary' = loadMonthSummary(books, calendarYear', calendarMonth')
    /\ last' = [op |-> "calendarNextMonth"]
    /\ UNCHANGED <<storeVars, lookupVars, listVars, activityDates, computedDates,
                   modalVars, dragVars, parseVars, posVars, authVars>>

\* the Delete button of a finished item, confirm() accepted
deleteFromRead(isbnVal) ==
    /\ isbnVal \in finished
    /\ books' = DeleteWhereIsbn(books, isbnVal)
    /\ UNCHANGED <<overrides, progress_events, dateIsUnique, pending>>
    /\ refreshReadingLog
    /\ last' = [op |-> "deleteFromRead", isbn |-> isbnVal]
    /\ UNCHANGED <<lookupVars, monthSummary,
                   calendarYear, calendarMonth, modalVars, dragVars, parseVars, posVars, authVars>>

----------------------------------------------------------------------------
(* BacklogOrderer *)

\* backlogSectionType(item) for the row the list item with this isbn shows
backlogSectionType(isbnVal) ==
    IF books[isbnVal].entry_type = "article" THEN "article"
    ELSE IF books[isbnVal].entry_type = "poem" THEN "poem"
    ELSE "book"

\* computed backlogBooks / backlogArticles / backlogPoems, chosen as the
\* reorder handlers choose among them
SectionItems(sectionType) ==
    IF sectionType = "article"
    THEN SelectSeq(backlog, LAMBDA i : books[i].entry_type = "article")
    ELSE IF sectionType = "poem"
    THEN SelectSeq(backlog, LAMBDA i : books[i].entry_type = "poem")
    ELSE SelectSeq(backlog, LAMBDA i : books[i].entry_type = "book")

\* Array.prototype.findIndex on isbn: 0-based, -1 when absent
FindIndex(q, x) ==
    IF \E i \in 1..Len(q) : q[i] = x
    THEN (CHOOSE i \in 1..Len(q) : q[i] = x) - 1
    ELSE -1

\* variant of MoveWithin that puts the removed item first
MoveWithinToFront(q, at, to) ==
    <<q[at + 1]>> \o SubSeq(q, 1, at) \o SubSeq(q, at + 2, Len(q))

\* const [removed] = reordered.splice(at, 1); reordered.splice(to, 0, removed)
\* (0-based; an insert index past the end appends)
MoveWithin(q, at, to) ==
    LET removed == q[at + 1]
        rest    == SubSeq(q, 1, at) \o SubSeq(q, at + 2, Len(q))
        k       == IF to > Len(rest) THEN Len(rest) ELSE to
    IN  SubSeq(rest, 1, k) \o <<removed>> \o SubSeq(rest, k + 1, Len(rest))

RECURSIVE mergeBacklogOrder(_, _, _)
mergeBacklogOrder(fullList, newSectionItems, sectionType) ==
    IF fullList = <<>> THEN <<>>
    ELSE IF backlogSectionType(Head(fullList)) = sectionType
    THEN <<Head(newSectionItems)>>
            \o mergeBacklogOrder(Tail(fullList), Tail(newSectionItems), sectionType)
    ELSE <<Head(fullList)>>
            \o mergeBacklogOrder(Tail(fullList), newSectionItems, sectionType)

\* variant of WriteBacklogOrder that numbers from 1
WriteBacklogOrderOneBased(b, fullOrder) ==
    [i \in DOMAIN b |->
        IF i \in SeqToSet(fullOrder)
        THEN [b[i] EXCEPT !.backlog_order = FindIndex(fullOrder, i) + 1]
        ELSE b[i]]

\* fullOrder.map((item, idx) => update({backlog_order: idx}).eq("isbn", item.isbn))
WriteBacklogOrder(b, fullOrder) ==
    [i \in DOMAIN b |->
        IF i \in SeqToSet(fullOrder)
        THEN [b[i] EXCEPT !.backlog_order = FindIndex(fullOrder, i)]
        ELSE b[i]]

\* the part the three reorder handlers share: write every index, reload the list
Reorder(via, isbnVal, sectionType, arg, reordered) ==
    LET fullOrder == mergeBacklogOrder(backlog, reordered, sectionType)
    IN  /\ books' = WriteBacklogOrder(books, fullOrder)
        /\ backlog' \in loadBacklog(books')
        /\ last' = [ op |-> "reorder", via |-> via, isbn |-> isbnVal,
                     section |-> sectionType, arg |-> arg, wrote |-> TRUE,
                     before |-> backlog, books |-> books ]
        /\ UNCHANGED <<overrides, progress_events, dateIsUnique, pending, inProgress, finished, stats>>

NoReorder(via, isbnVal, sectionType, arg) ==
    /\ last' = [ op |-> "reorder", via |-> via, isbn |-> isbnVal,
                 section |-> sectionType, arg |-> arg, wrote |-> FALSE,
                 before |-> backlog, books |-> books ]
    /\ UNCHANGED <<storeVars, listVars>>

\* variant of moveBacklogItemToPosition that takes the position as an index
moveBacklogItemToPositionZeroBased(isbnVal, sectionType, newPosition) ==
    /\ LET sectionItems == SectionItems(sectionType)
           currentIndex == FindIndex(sectionItems, isbnVal)
           upper        == IF Len(sectionItems) - 1 < newPosition
                           THEN Len(sectionItems) - 1 ELSE newPosition
           newIndex     == IF upper < 0 THEN 0 ELSE upper
       IN  IF currentIndex = -1 \/ newIndex = currentIndex
           THEN NoReorder("position", isbnVal, sectionType, newPosition)
           ELSE Reorder("position", isbnVal, sectionType, newPosition,
                        MoveWithin(sectionItems, currentIndex, newIndex))
    /\ UNCHANGED <<lookupVars, calendarVars, modalVars, dragVars, parseVars, authVars>>

moveBacklogItemToPosition(isbnVal, sectionType, newPosition) ==
    /\ LET sectionItems == SectionItems(sectionType)
           currentIndex == FindIndex(sectionItems, isbnVal)
           upper        == IF Len(sectionItems) - 1 < newPosition - 1
                           THEN Len(sectionItems) - 1 ELSE newPosition - 1
           newIndex     == IF upper < 0 THEN 0 ELSE upper
       IN  IF currentIndex = -1 \/ newIndex = currentIndex
           THEN NoReorder("position", isbnVal, sectionType, newPosition)
           ELSE Reorder("position", isbnVal, sectionType, newPosition,
                        MoveWithin(sectionItems, currentIndex, newIndex))
    /\ UNCHANGED <<lookupVars, calendarVars, modalVars, dragVars, parseVars, authVars>>

moveBacklogItem(isbnVal, sectionType, direction) ==
    /\ LET sectionItems == SectionItems(sectionType)
           currentIndex == FindIndex(sectionItems, isbnVal)
           newIndex     == IF direction = "up" THEN currentIndex - 1
                           ELSE currentIndex + 1
       IN  IF currentIndex = -1 \/ newIndex < 0 \/ newIndex >= Len(sectionItems)
           THEN NoReorder("adjacent", isbnVal, sectionType, direction)
           ELSE Reorder("adjacent", isbnVal, sectionType, direction,
                        MoveWithin(sectionItems, currentIndex, newIndex))
    /\ UNCHANGED <<lookupVars, calendarVars, modalVars, dragVars, parseVars, posVars, authVars>>

\* @dragstart of a backlog item
onBacklogDragStart(isbnVal) ==
    /\ isbnVal \in SeqToSet(backlog)
    /\ draggedIsbn' = isbnVal
    /\ draggedSection' = backlogSectionType(isbnVal)
    /\ last' = [op |-> "onBacklogDragStart", isbn |-> isbnVal]
    /\ UNCHANGED <<storeVars, lookupVars, listVars, calendarVars, modalVars, parseVars, posVars, authVars>>

\* variant of onBacklogDrop that leaves the drag state as it is
onBacklogDropKeepsDrag(sectionType, dropIndex) ==
    /\ dropIndex \in 0..(Len(SectionItems(sectionType)) - 1)
    /\ UNCHANGED dragVars
    /\ LET isbnVal      == draggedIsbn
           sectionItems == SectionItems(sectionType)
           fromIndex    == FindIndex(sectionItems, isbnVal)
       IN  IF isbnVal = NoId \/ draggedSection # sectionType \/ fromIndex = -1
           THEN NoReorder("drop", isbnVal, sectionType, dropIndex)
           ELSE Reorder("drop", isbnVal, sectionType, dropIndex,
                        MoveWithin(sectionItems, fromIndex, dropIndex))
    /\ UNCHANGED <<lookupVars, calendarVars, modalVars, parseVars, posVars, authVars>>

\* @drop on the item at dropIndex of the list of sectionType
onBacklogDrop(sectionType, dropIndex) ==
    /\ dropIndex \in 0..(Len(SectionItems(sectionType)) - 1)
    /\ draggedIsbn' = NoId
    /\ draggedSection' = NoId
    /\ LET isbnVal      == draggedIsbn
           sectionItems == SectionItems(sectionType)
           fromIndex    == FindIndex(sectionItems, isbnVal)
       IN  IF isbnVal = NoId \/ draggedSection # sectionType \/ fromIndex = -1
           THEN NoReorder("drop", isbnVal, sectionType, dropIndex)
           ELSE Reorder("drop", isbnVal, sectionType, dropIndex,
                        MoveWithin(sectionItems, fromIndex, dropIndex))
    /\ UNCHANGED <<lookupVars, calendarVars, modalVars, parseVars, posVars, authVars>>

----------------------------------------------------------------------------
(* BacklogOrderer, request by request: moveBacklogItem as the call that     *)
(* issues one update per entry, the store serving each update on its own,   *)
(* and the return after Promise.all. moveBacklogItem above is the three in  *)
(* one step, every update served with success and no other call between.    *)

\* the handler runs a reorder can have open at once, by name
OpIds == {"first", "second"}

\* history: the calls of moveBacklogItem so far
CallsSoFar == IF "calls" \in DOMAIN last THEN last.calls ELSE 0

\* variant of BacklogOrderUpdates that numbers from 1
BacklogOrderUpdatesOneBased(op, fullOrder, overlapped) ==
    { [ op |-> op, isbn |-> fullOrder[k], idx |-> k, state |-> "sent",
        was |-> books[fullOrder[k]].backlog_order,
        overlapped |-> overlapped, readFresh |-> \A u \in pending : u.state = "sent" ]
      : k \in 1..Len(fullOrder) }

\* fullOrder.map((item, idx) => supabase.from("books").update({ backlog_order: idx })
\* .eq("isbn", item.isbn)): the requests of one run. `was`, `overlapped` and
\* `readFresh` are history: the value the row had at the call, whether another
\* run was open during this one, and whether no update of another run had
\* been served when this run read the list
BacklogOrderUpdates(op, fullOrder, overlapped) ==
    { [ op |-> op, isbn |-> fullOrder[k], idx |-> k - 1, state |-> "sent",
        was |-> books[fullOrder[k]].backlog_order,
        overlapped |-> overlapped, readFresh |-> \A u \in pending : u.state = "sent" ]
      : k \in 1..Len(fullOrder) }

\* moveBacklogItem up to `await Promise.all(updates)`
moveBacklogItemCall(op, isbnVal, sectionType, direction) ==
    /\ op \notin {u.op : u \in pending}
    /\ LET sectionItems == SectionItems(sectionType)
           currentIndex == FindIndex(sectionItems, isbnVal)
           newIndex     == IF direction = "up" THEN currentIndex - 1
                           ELSE currentIndex + 1
       IN  IF currentIndex = -1 \/ newIndex < 0 \/ newIndex >= Len(sectionItems)
           THEN /\ last' = [ op |-> "moveCall", run |-> op, wrote |-> FALSE,
                             calls |-> CallsSoFar + 1 ]
                /\ UNCHANGED pending
           ELSE LET reordered == MoveWithin(sectionItems, currentIndex, newIndex)
                    fullOrder == mergeBacklogOrder(backlog, reordered, sectionType)
                IN  /\ pending' = {[u EXCEPT !.overlapped = TRUE] : u \in pending}
                                     \cup BacklogOrderUpdates(op, fullOrder, pending # {})
                    /\ last' = [ op |-> "moveCall", run |-> op, wrote |-> TRUE,
                                 calls |-> CallsSoFar + 1 ]
    /\ UNCHANGED <<books, overrides, progress_events, dateIsUnique, lookupVars,
                   listVars, calendarVars, modalVars, dragVars, parseVars, posVars, authVars>>

\* the store serves one update request: the row is written, or the request fails
ServeUpdate(u, ok) ==
    /\ u \in pending
    /\ u.state = "sent"
    /\ books' = IF ok THEN UpdateWhereIsbn(books, u.isbn, [backlog_order |-> u.idx])
                ELSE books
    /\ pending' = (pending \ {u})
                     \cup {[u EXCEPT !.state = IF ok THEN "applied" ELSE "failed"]}
    /\ last' = [op |-> "serveUpdate", run |-> u.op, ok |-> ok, calls |-> CallsSoFar]
    /\ UNCHANGED <<overrides, progress_events, dateIsUnique, lookupVars, listVars,
                   calendarVars, modalVars, dragVars, parseVars, posVars, authVars>>

\* moveBacklogItem after Promise.all has settled: loadBacklog, or, when a
\* failed request made the promise reject, the catch block
moveBacklogItemReturn(op, rejected) ==
    /\ LET mine == {u \in pending : u.op = op}
       IN  /\ mine # {}
           /\ \A u \in mine : u.state # "sent"
           /\ rejected => \E u \in mine : u.state = "failed"
           /\ pending' = pending \ mine
           /\ IF rejected
              THEN /\ error' = "Failed to reorder"
                   /\ UNCHANGED backlog
              ELSE /\ backlog' \in loadBacklog(books)
                   /\ UNCHANGED error
           /\ last' = [ op |-> "moveReturn", run |-> op, updates |-> mine,
                        calls |-> CallsSoFar ]
    /\ UNCHANGED <<books, overrides, progress_events, dateIsUnique, isbn, book,
                   searchResults, loading, inProgress, finished, stats, calendarVars,
                   modalVars, dragVars, parseVars, posVars, authVars>>

----------------------------------------------------------------------------
(* Generic edit and manual add *)

EditDateKeys == {"started_date", "finished_date", "backlog_date"}

\* the Edit button of a list item: the form is a copy of the item
openEdit(isbnVal) ==
    /\ isbnVal \in SeqToSet(backlog) \cup DOMAIN inProgress \cup finished
    /\ isbnVal \in DOMAIN books
    /\ editBookForEdit' =
          LET item == IF isbnVal \in DOMAIN inProgress THEN inProgress[isbnVal]
                      ELSE books[isbnVal]
          IN  [f \in DOMAIN item \cup {"isbn"} |->
                  IF f = "isbn" THEN isbnVal ELSE item[f]]
    /\ last' = [op |-> "openEdit", isbn |-> isbnVal]
    /\ UNCHANGED <<storeVars, lookupVars, listVars, calendarVars, editBook,
                   finishDate, showFinishModal, dragVars, parseVars, posVars, authVars>>

\* v-model="editBookForEdit.status" (the option "-" gives null)
EditStatus(st) ==
    /\ editBookForEdit.isbn # NoId
    /\ editBookForEdit' = [editBookForEdit EXCEPT !.status = st]
    /\ last' = [op |-> "editField"]
    /\ UNCHANGED <<storeVars, lookupVars, listVars, calendarVars, editBook,
                   finishDate, showFinishModal, dragVars, parseVars, posVars, authVars>>

\* v-if of the three date fields of the edit form
EditDateShown(key) ==
    LET b == editBookForEdit
    IN  CASE key = "backlog_date"  -> b.status = "backlog" \/ b.backlog_date # Null
          [] key = "started_date"  -> b.status \in {"in_progress", "finished"}
                                      \/ b.started_date # Null
          [] key = "finished_date" -> b.status = "finished" \/ b.finished_date # Null

\* v-model of a date field of the edit form (Null: emptied)
EditDate(key, d) ==
    /\ editBookForEdit.isbn # NoId
    /\ EditDateShown(key)
    /\ editBookForEdit' = [editBookForEdit EXCEPT ![key] = d]
    /\ last' = [op |-> "editField"]
    /\ UNCHANGED <<storeVars, lookupVars, listVars, calendarVars, editBook,
                   finishDate, showFinishModal, dragVars, parseVars, posVars, authVars>>

\* v-model="editBookForEdit.title"
EditTitle(t) ==
    /\ editBookForEdit.isbn # NoId
    /\ editBookForEdit' = [editBookForEdit EXCEPT !.title = t]
    /\ last' = [op |-> "editField"]
    /\ UNCHANGED <<storeVars, lookupVars, listVars, calendarVars, editBook,
                   finishDate, showFinishModal, dragVars, parseVars, posVars, authVars>>

\* v-model.number="editBookForEdit.current_page"
EditCurrentPage(n) ==
    /\ editBookForEdit.isbn # NoId
    /\ editBookForEdit' = [editBookForEdit EXCEPT !.current_page = n]
    /\ last' = [op |-> "editField"]
    /\ UNCHANGED <<storeVars, lookupVars, listVars, calendarVars, editBook,
                   finishDate, showFinishModal, dragVars, parseVars, posVars, authVars>>

\* the payload of saveEdit: a field that is null, or a date that is empty,
\* is undefined and so is not sent
EditPayload(b) ==
    LET sent == { "title" } \cup
                { k \in {"number_of_pages", "current_page", "started_date",
                         "backlog_date", "finished_date"} : b[k] # Null } \cup
                { k \in {"status"} : b[k] # NoStatus }
    IN  [k \in sent |-> b[k]]

closeEditModal ==
    /\ editBookForEdit.isbn # NoId
    /\ editBookForEdit' = NoEdit
    /\ last' = [op |-> "closeEditModal"]
    /\ UNCHANGED <<storeVars, lookupVars, listVars, calendarVars, editBook,
                   finishDate, showFinishModal, dragVars, parseVars, posVars, authVars>>

\* submit of the edit form
saveEdit ==
    /\ editBookForEdit.isbn # NoId
    /\ LET b == editBookForEdit
       IN  IF b.isbn \notin DOMAIN books
           THEN /\ error' = "no row"
                /\ last' = [ op |-> "saveEdit", isbn |-> b.isbn, status |-> b.status,
                             finished_date |-> b.finished_date, wrote |-> FALSE,
                             before |-> NoStatus ]
                /\ UNCHANGED <<storeVars, isbn, book, searchResults, loading, listVars, activityDates,
                               computedDates, editBookForEdit>>
           ELSE /\ books' = UpdateWhereIsbn(books, b.isbn, EditPayload(b))
                /\ editBookForEdit' = NoEdit
                /\ UNCHANGED <<overrides, progress_events, dateIsUnique, pending>>
                /\ refreshReadingLog
                /\ book' = IF book.isbn = b.isbn
                           THEN [ isbn |-> b.isbn, title |-> books'[b.isbn].title,
                                  number_of_pages |-> books'[b.isbn].number_of_pages ]
                           ELSE book
                /\ last' = [ op |-> "saveEdit", isbn |-> b.isbn, status |-> b.status,
                             finished_date |-> b.finished_date, wrote |-> TRUE,
                             before |-> books[b.isbn].status ]
                /\ UNCHANGED <<isbn, error, searchResults, loading>>
    /\ UNCHANGED <<monthSummary, calendarYear, calendarMonth, editBook, finishDate,
                   showFinishModal, dragVars, parseVars, posVars, authVars>>

\* submit of the article form (kind "article") or of the poem form (kind
\* "poem"): the title, initial status and page count typed; id is the fresh
\* `article-<uuid>`
SubmitManual(kind, id, title, status, pages) ==
    /\ id \notin DOMAIN books
    /\ IF Trim(title) = <<>>
       THEN /\ last' = [op |-> "submit", kind |-> kind, isbn |-> id, wrote |-> FALSE]
            /\ UNCHANGED <<storeVars, listVars, activityDates, computedDates>>
       ELSE /\ books' = InsertRow(books, id,
                          NewRow(kind, Trim(title), status,
                                 IF pages = 0 THEN Null ELSE pages))
            /\ UNCHANGED <<overrides, progress_events, dateIsUnique, pending>>
            /\ refreshReadingLog
            /\ last' = [op |-> "submit", kind |-> kind, isbn |-> id, wrote |-> TRUE]
    /\ UNCHANGED <<lookupVars, monthSummary, calendarYear, calendarMonth, modalVars,
                   dragVars, parseVars, posVars, authVars>>

submitArticle(id, title, status, pages) == SubmitManual("article", id, title, status, pages)

submitPoem(id, title, status, pages) == SubmitManual("poem", id, title, status, pages)

----------------------------------------------------------------------------
(* Initial states: the tables as found and the client after init() has     *)
(* loaded them                                                              *)

NoRows == [i \in {} |-> 0]

NoOverrides == [d \in {} |-> TRUE]

ParseIdle ==
    /\ pageRaw = <<>>
    /\ pageCur = Null
    /\ pageResult = PageUnset

\* the refs of the client after its loaders have run on the tables b, ov, ev
ClientLoaded(b, ov, ev) ==
    /\ books = b
    /\ overrides = ov
    /\ progress_events = ev
    /\ dateIsUnique \in BOOLEAN
    /\ pending = {}
    /\ isbn = <<>>
    /\ book = NoBook
    /\ error = NoError
    /\ searchResults = {}
    /\ loading = FALSE
    /\ backlog \in loadBacklog(b)
    /\ inProgress = loadInProgress(b)
    /\ finished = loadFinished(b)
    /\ stats = loadStats(b)
    /\ computedDates = ComputedDates(b)
    /\ activityDates = loadActivityDates(b, ov)
    /\ calendarYear = YearOf(Today)
    /\ calendarMonth = MonthOf(Today)
    /\ monthSummary = loadMonthSummary(b, YearOf(Today), MonthOf(Today))
    /\ editBook = NoId
    /\ finishDate = Null
    /\ showFinishModal = FALSE
    /\ editBookForEdit = NoEdit
    /\ draggedIsbn = NoId
    /\ draggedSection = NoId
    /\ last = NoLast
    /\ editingPosIsbn = NoId
    /\ editingPosValue = 1
    /\ posEditEscaped = FALSE
    /\ inputRemoved = NoEdit

\* the owner is signed in and the home page is shown
SignedIn ==
    /\ user = "owner"
    /\ authLoading = FALSE
    /\ route = "home"
    /\ navigation = NoId

\* the three tables as found, and the client after init() has loaded them
StoreLoaded(b, ov, ev) == ClientLoaded(b, ov, ev) /\ SignedIn

\* a store whose table progress_events holds no row
AppLoaded(b, ov) == StoreLoaded(b, ov, {})

\* rows found in table books: a row as an earlier session left it
Row(kind, status, order, started, finishedOn, progressOn, page, pages) ==
    [ entry_type         |-> kind,
      title              |-> <<"T">>,
      status             |-> status,
      number_of_pages    |-> pages,
      backlog_order      |-> order,
      backlog_date       |-> LastMonthDay,
      started_date       |-> started,
      finished_date      |-> finishedOn,
      last_progress_date |-> progressOn,
      current_page       |-> page ]

Isbn1 == "9780140328721"

Isbn2 == "9780306406157"

Isbn3 == "9780262033848"

ArticleId1 == "article-1"

ArticleId2 == "article-2"

PoemId1 == "article-3"

----------------------------------------------------------------------------
(* Specification of the page-input parser: the handler of the page field   *)
(* hands the typed text and the displayed page to parsePageInput.          *)

PageAlphabet == {"1", "2", "+", " ", "-", "a", "."}

RECURSIVE TextsOfLen(_)
TextsOfLen(n) ==
    IF n = 0 THEN {<<>>}
    ELSE {Append(t, c) : t \in TextsOfLen(n - 1), c \in PageAlphabet}

\* the inputs quoted by the documentation of the page field
QuotedPageInputs ==
    { <<"+", "2", "0">>, <<"1", "4", "4", "+", "2", "0">>, <<"1", "4", "4">>,
      <<"a", "b", "c">>, <<"-", "5">>, <<"5", "+">>, <<"1", "2", " ", "3", "4">>,
      <<"1", "2", "a", "b", "c">>, <<"1", ".", "5">>, <<"+", " ", "2", "0">>,
      <<" ", "8", "0", " ">>, <<"1", "+", "2", "+", "3", "0">> }

PageInputs == UNION {TextsOfLen(n) : n \in 0..MaxLen} \cup QuotedPageInputs

PageCurrents == {Null, 0, 10, 144}

ParseInit ==
    /\ AppLoaded(NoRows, NoOverrides)
    /\ pageRaw \in PageInputs
    /\ pageCur \in PageCurrents
    /\ pageResult = PageUnset

ParsePageInput ==
    /\ pageResult = PageUnset
    /\ pageResult' = parsePageInput(pageRaw, pageCur)
    /\ UNCHANGED <<pageRaw, pageCur, storeVars, lookupVars, listVars, calendarVars,
                   modalVars, dragVars, last, posVars, authVars>>

ParseNext == ParsePageInput

SpecParse == ParseInit /\ [][ParseNext]_vars

----------------------------------------------------------------------------
(* Shapes of page input as the documentation words them *)

AllDigits(s) == s # <<>> /\ \A i \in 1..Len(s) : IsDigit(s[i])

\* '+' followed by digits
IsPlusDigits(s) == Len(s) >= 2 /\ s[1] = "+" /\ AllDigits(Tail(s))

\* digit groups separated by '+', no leading '+'; a bare digit string is one group
IsDigitGroups(s) ==
    /\ s # <<>>
    /\ IsDigit(s[1]) /\ IsDigit(s[Len(s)])
    /\ \A i \in 1..Len(s) : IsDigit(s[i]) \/ s[i] = "+"
    /\ \A i \in 1..(Len(s) - 1) : ~(s[i] = "+" /\ s[i + 1] = "+")

\* left-to-right evaluation of d1+d2+...+dk
RECURSIVE GroupsValue(_, _, _)
GroupsValue(s, total, group) ==
    IF s = <<>> THEN total + group
    ELSE IF Head(s) = "+" THEN GroupsValue(Tail(s), total + group, 0)
    ELSE GroupsValue(Tail(s), total, 10 * group + DigitVal(Head(s)))

AcceptedShape(s) == IsPlusDigits(s) \/ IsDigitGroups(s)

\* C3: on well-formed input parsePageInput returns currentPage + d for "+d",
\* the sum of the groups for "d1+d2+..." whatever currentPage is, and the
\* literal value for bare digits; "+20" at page 144 and "144+20" both give 164.
C3_WellFormedValue ==
    pageResult # PageUnset =>
        /\ IsPlusDigits(pageRaw) =>
              pageResult = ValidPage(OrZero(pageCur) + GroupsValue(Tail(pageRaw), 0, 0))
        /\ IsDigitGroups(pageRaw) =>
              pageResult = ValidPage(GroupsValue(pageRaw, 0, 0))
        /\ (pageRaw = <<"+", "2", "0">> /\ pageCur = 144) => pageResult = ValidPage(164)
        /\ pageRaw = <<"1", "4", "4", "+", "2", "0">> => pageResult = ValidPage(164)

C3_Witness ==
    /\ pageRaw = <<"+", "2", "0">> /\ pageCur = 144
    /\ pageResult = ValidPage(164)

\* C4: parsePageInput returns Invalid for every input that is empty or white
\* space or is not one of the three accepted shapes, and never returns a
\* negative page when currentPage >= 0.
C4_OtherShapesInvalid ==
    pageResult # PageUnset =>
        /\ ~AcceptedShape(Trim(pageRaw)) => pageResult = InvalidPage
        /\ (pageCur >= 0 /\ pageResult.ok) => pageResult.page >= 0

\* the text "12abc" taken as page 12
C4_Witness ==
    /\ pageRaw = <<"1", "2", "a", "b", "c">>
    /\ pageResult = ValidPage(12)

----------------------------------------------------------------------------
(* Specification of the lookup page: the ISBN field, Look up, and the      *)
(* buttons of the record shown                                             *)

IsbnTexts ==
    { <<"9", "7", "8", "0", "1", "4", "0", "3", "2", "8", "7", "2", "1">>,
      <<"9", "7", "8", "-", "0", "1", "4", "0", "3", "2", "8", "7", "2", "-", "1">>,
      <<"9", "7", "8", "0", "3", "0", "6", "4", "0", "6", "1", "5", "7">>,
      <<"1", "2", "3", "4", "5">>,
      <<"9", "7", "8", "0", "1", "4", "0", "3", "2", "8", "7", "2", "X">> }

LookupSeeds ==
    { NoRows,
      [i \in {Isbn1} |-> Row("book", NoStatus, Null, Null, Null, Null, Null, GooglePages)],
      [i \in {Isbn1} |-> Row("book", "backlog", 0, Null, Null, Null, Null, GooglePages)] }

LookupInit ==
    /\ \E b \in LookupSeeds : AppLoaded(b, NoOverrides)
    /\ ParseIdle

LookupNext ==
    \/ \E text \in IsbnTexts : TypeIsbn(text)
    \/ \E gb \in GoogleOutcomes, ol \in OpenLibraryOutcomes : lookup(gb, ol)
    \/ clearBook
    \/ addToBacklog
    \/ startReadingFromLookup

SpecLookup == LookupInit /\ [][LookupNext]_vars

\* C1: cache-first: when a record with the looked-up id is already stored,
\* the lookup returns it and calls no external provider.
C1_CacheFirst ==
    (last.op = "lookup" /\ last.cached) =>
        /\ last.gbCalls = 0 /\ last.olCalls = 0
        /\ book.isbn = last.isbn

C1_Witness == last.op = "lookup" /\ last.cached /\ last.ok /\ last.gbCalls = 1

\* C10: after a successful resolve of an id that had no stored record the
\* store holds an entry with that id and status none, so that the following
\* add-to-backlog changes a stored entry.
C10_ResolvePersists ==
    /\ (last.op = "lookup" /\ last.ok /\ ~last.cached) =>
          (last.isbn \in DOMAIN books /\ books[last.isbn].status = NoStatus)
    /\ last.op = "addToBacklog" =>
          (last.isbn \in DOMAIN books /\ books[last.isbn].status = "backlog")

C10_Witness == last.op = "addToBacklog" /\ ~last.stored /\ last.isbn \notin DOMAIN books

\* C11: a lookup that fails (Google Books errors or has no item) leaves the
\* three tables as they were, so no row stands for the failure, and a lookup
\* of the same id that directly follows a failed one asks Google Books again.
C11_FailedLookupWritesNothing ==
    /\ [][(last'.op = "lookup" /\ ~last'.ok) => UNCHANGED storeVars]_vars
    /\ []((last.op = "lookup" /\ ~last.ok /\ ~last.cached)
              => last.isbn \notin DOMAIN books)
    /\ []((last.op = "lookup" /\ last.retry) => last.gbCalls = 1)

\* a failed lookup of an id with no row, retried with success
C11_Witness ==
    /\ last.op = "lookup" /\ last.retry /\ last.ok
    /\ ~last.cached /\ last.gbCalls = 1
    /\ book.isbn = last.isbn

\* C20: when Google Books errors or returns no item for an id with no stored
\* row, Open Library is asked before the lookup fails, and no provider is
\* asked more than once in one lookup.
C20_SecondaryBeforeNotFound ==
    (last.op = "lookup" /\ ~last.cached) =>
        /\ ~last.ok => (last.gbCalls = 1 /\ last.olCalls = 1)
        /\ last.gbCalls <= 1 /\ last.olCalls <= 1

\* a lookup of an unknown id that failed on Google Books alone
C20_Witness ==
    /\ last.op = "lookup" /\ ~last.cached /\ ~last.ok
    /\ last.gbCalls = 1 /\ last.olCalls = 0
    /\ book = NoBook

----------------------------------------------------------------------------
(* Specification of the backlog page: drag and drop, the arrows, the       *)
(* position field, Remove                                                  *)

MaxPosition == 5    \* largest position typed into the position field

Sections == {"book", "article", "poem"}

BacklogRow(kind, order) == Row(kind, "backlog", order, Null, Null, Null, Null, Null)

OrderSeeds ==
    { \* an interleaved backlog the reorder handlers have numbered
      [i \in {Isbn1, ArticleId1, Isbn2, ArticleId2} |->
          BacklogRow(IF i \in {Isbn1, Isbn2} THEN "book" ELSE "article",
                     CASE i = Isbn1 -> 0 [] i = ArticleId1 -> 1
                       [] i = Isbn2 -> 2 [] i = ArticleId2 -> 3)],
      \* the same with a poem added since (an add writes no backlog_order)
      [i \in {Isbn1, ArticleId1, Isbn2, PoemId1} |->
          BacklogRow(CASE i \in {Isbn1, Isbn2} -> "book" [] i = ArticleId1 -> "article"
                       [] i = PoemId1 -> "poem",
                     CASE i = Isbn1 -> 0 [] i = ArticleId1 -> 1
                       [] i = Isbn2 -> 2 [] i = PoemId1 -> Null)],
      \* books only
      [i \in {Isbn1, Isbn2, Isbn3} |->
          BacklogRow("book", CASE i = Isbn1 -> 0 [] i = Isbn2 -> 1 [] i = Isbn3 -> 2)],
      \* entries added and never reordered: no backlog_order written yet
      [i \in {Isbn1, ArticleId1, Isbn2} |->
          BacklogRow(IF i = ArticleId1 THEN "article" ELSE "book", Null)] }

OrderInit ==
    /\ \E b \in OrderSeeds : AppLoaded(b, NoOverrides)
    /\ ParseIdle

OrderNext ==
    \/ \E i \in DOMAIN books : onBacklogDragStart(i)
    \/ \E sec \in Sections, k \in 0..3 : onBacklogDrop(sec, k)
    \* the buttons and the position field of an item pass the item's own section
    \/ \E i \in DOMAIN books, dir \in {"up", "down"} :
          i \in SeqToSet(backlog) /\ moveBacklogItem(i, backlogSectionType(i), dir)
    \/ \E i \in DOMAIN books, pos \in (-1)..MaxPosition :
          i \in SeqToSet(backlog)
             /\ moveBacklogItemToPosition(i, backlogSectionType(i), pos)
             /\ UNCHANGED posVars
    \/ \E i \in DOMAIN books : removeFromList(i)

SpecOrder == OrderInit /\ [][OrderNext]_vars

BacklogIds == WithStatus(books, "backlog")

OrdersOf(S) == {books[i].backlog_order : i \in S}

KindIds(sectionType) == {i \in BacklogIds : books[i].entry_type = sectionType}

SectionOf(list, b, sectionType) ==
    SelectSeq(list, LAMBDA i :
        (IF b[i].entry_type \in {"article", "poem"} THEN b[i].entry_type ELSE "book")
            = sectionType)

Without(q, x) == SelectSeq(q, LAMBDA y : y # x)

Clamp(v, lo, hi) == IF v < lo THEN lo ELSE IF v > hi THEN hi ELSE v

\* C24: moveToPosition(id, p) on a section of n entries leaves id at index
\* clamp(p - 1, 0, n - 1) of the section, for p <= 0 and p > n too, and the
\* other entries of the section in the order they had.
C24_MoveToPositionClamps ==
    ( /\ last.op = "reorder" /\ last.via = "position"
      /\ last.isbn \in SeqToSet(SectionOf(last.before, last.books, last.section)) ) =>
        LET was == SectionOf(last.before, last.books, last.section)
            now == SectionItems(last.section)
        IN  /\ FindIndex(now, last.isbn) = Clamp(last.arg - 1, 0, Len(was) - 1)
            /\ Without(now, last.isbn) = Without(was, last.isbn)

\* the first of three books sent to position 5: it is the last, the other two
\* follow each other as before
C24_Witness ==
    /\ last.op = "reorder" /\ last.via = "position" /\ last.wrote
    /\ last.section = "book"
    /\ last.arg = MaxPosition
    /\ Len(SectionItems("book")) = 3
    /\ FindIndex(SectionOf(last.before, last.books, "book"), last.isbn) = 0
    /\ FindIndex(SectionItems("book"), last.isbn) = 2

\* C25: moveAdjacent(id, direction) writes nothing when id is first and goes
\* up or is last and goes down; otherwise id and its neighbour on that side
\* change places, and every other entry of the backlog list stays where it was.
C25_MoveAdjacentSwaps ==
    ( /\ last.op = "reorder" /\ last.via = "adjacent"
      /\ last.isbn \in SeqToSet(SectionOf(last.before, last.books, last.section)) ) =>
        LET was == SectionOf(last.before, last.books, last.section)
            now == SectionItems(last.section)
            k   == FindIndex(was, last.isbn)
            j   == IF last.arg = "up" THEN k - 1 ELSE k + 1
        IN  IF j < 0 \/ j > Len(was) - 1
            THEN /\ ~last.wrote
                 /\ books = last.books
                 /\ backlog = last.before
            ELSE /\ last.wrote
                 /\ Len(now) = Len(was)
                 /\ now[j + 1] = last.isbn
                 /\ now[k + 1] = was[j + 1]
                 /\ \A m \in 1..Len(was) : m \notin {k + 1, j + 1} => now[m] = was[m]
                 /\ Len(backlog) = Len(last.before)
                 /\ \A m \in 1..Len(backlog) :
                       last.before[m] \notin {last.isbn, was[j + 1]}
                          => backlog[m] = last.before[m]

\* the last of three books moved up: it is the second, the first stayed
C25_Witness ==
    /\ last.op = "reorder" /\ last.via = "adjacent" /\ last.wrote
    /\ last.arg = "up"
    /\ Len(SectionItems("book")) = 3
    /\ FindIndex(SectionOf(last.before, last.books, "book"), last.isbn) = 2
    /\ FindIndex(SectionItems("book"), last.isbn) = 1
    /\ SectionItems("book")[1] = last.before[1]

\* C26: a drop on a section other than the dragged item's is turned down
\* with no write and no error, and after every drop, taken or turned down,
\* the drag state (dragged id and section) is empty.
C26_CrossKindDropRejected ==
    (last.op = "reorder" /\ last.via = "drop") =>
        /\ draggedIsbn = NoId
        /\ draggedSection = NoId
        /\ ( /\ last.isbn \in DOMAIN last.books
             /\ SectionOf(<<last.isbn>>, last.books, last.section) = <<>> ) =>
                /\ ~last.wrote
                /\ books = last.books
                /\ backlog = last.before
                /\ error = NoError

\* an article dropped on the second book
C26_Witness ==
    /\ last.op = "reorder" /\ last.via = "drop" /\ ~last.wrote
    /\ last.isbn = ArticleId1
    /\ last.section = "book"
    /\ last.arg = 1
    /\ draggedIsbn = NoId /\ draggedSection = NoId
    /\ books = last.books

\* C27: a reorder within one kind changes neither the backlog_order value nor
\* the relative order of a backlog entry of another kind.
C27_OtherKindsUntouched ==
    (last.op = "reorder" /\ last.wrote) =>
        LET others == {i \in SeqToSet(last.before) :
                          SectionOf(<<i>>, last.books, last.section) = <<>>}
        IN  /\ \A i \in others : books[i].backlog_order = last.books[i].backlog_order
            /\ SelectSeq(backlog, LAMBDA i : i \in others)
                  = SelectSeq(last.before, LAMBDA i : i \in others)

\* the first book taken off the list, then the second article moved up: the
\* book that held position 2 holds position 1
C27_Witness ==
    /\ last.op = "reorder" /\ last.wrote
    /\ last.section = "article"
    /\ Isbn2 \in SeqToSet(last.before)
    /\ last.books[Isbn2].backlog_order = 2
    /\ books[Isbn2].backlog_order = 1
    /\ books[Isbn2].status = "backlog"

----------------------------------------------------------------------------
(* Specification of the progress field of the home page                   *)

ProgressInputs ==
    { <<"8", "0">>, <<"+", "2", "0">>, <<"1", "0", "0">>, <<"1", "6", "0">>,
      <<"1", "4", "4", "+", "2", "0">>, <<"a", "b", "c">>, <<>> }

ProgressSeeds ==
    { [i \in {Isbn1, Isbn2} |->
          IF i = Isbn1
          THEN Row("book", "in_progress", Null, LastMonthDay, Null, Yesterday, 100, 320)
          ELSE Row("book", "in_progress", Null, Yesterday, Null, Null, Null, Null)],
      [i \in {Isbn1, Isbn2} |->
          IF i = Isbn1
          THEN Row("book", "in_progress", Null, LastMonthDay, Null, Yesterday, 100, 320)
          ELSE Row("book", "backlog", Null, Null, Null, Null, Null, Null)] }

ProgressInit ==
    /\ \E b \in ProgressSeeds : AppLoaded(b, NoOverrides)
    /\ ParseIdle

ProgressNext ==
    \/ \E i \in DOMAIN books, t \in ProgressInputs : updateProgress(i, t)
    \/ \E i \in DOMAIN books : startReading(i)
    \/ calendarPrevMonth
    \/ calendarNextMonth

SpecProgress == ProgressInit /\ [][ProgressNext]_vars

\* the events of table progress_events dated in the month of today
EventsThisMonth ==
    {e \in progress_events :
        /\ e.date >= StartOfMonth(YearOf(Today), MonthOf(Today))
        /\ e.date <= EndOfMonth(YearOf(Today), MonthOf(Today))}

\* C5: a progress update that stored page q over page p has appended an event
\* of today with delta q - p (q < p and q = p included), and the month
\* summary of today's month reports as pages_recorded the sum of the deltas
\* of that month's events.
C5_ProgressEventAppended ==
    (last.op = "updateProgress" /\ last.wrote) =>
        /\ \E e \in progress_events :
              e.isbn = last.isbn /\ e.date = Today /\ e.delta = last.to - last.from
        /\ loadMonthSummary(books, YearOf(Today), MonthOf(Today)).pages_recorded
              = SumOver(EventsThisMonth, [e \in EventsThisMonth |-> e.delta])

\* the update of the example: page 100 corrected to page 80
C5_Witness ==
    /\ last.op = "updateProgress" /\ last.wrote
    /\ last.from = 100 /\ last.to = 80
    /\ books[last.isbn].current_page = 80
    /\ books[last.isbn].last_progress_date = Today

----------------------------------------------------------------------------
(* Specification of the two ways to finish: the finish modal, the edit form *)

FinishSeeds ==
    { [i \in {Isbn1, Isbn2} |->
          IF i = Isbn1
          THEN Row("book", "in_progress", Null, Yesterday, Null, Null, 50, 320)
          ELSE Row("book", "backlog", 0, Null, Null, Null, Null, 200)] }

FinishInit ==
    /\ \E b \in FinishSeeds : AppLoaded(b, NoOverrides)
    /\ ParseIdle

FinishNext ==
    \/ \E i \in DOMAIN books : openFinishModal(i)
    \/ \E d \in {Null, Today} : TypeFinishDate(d)
    \/ confirmMarkFinished
    \/ closeFinishModal
    \/ \E i \in DOMAIN books : openEdit(i)
    \/ \E st \in {"in_progress", "finished"} : EditStatus(st)
    \/ \E d \in {Null, Yesterday} : EditDate("finished_date", d)
    \/ saveEdit
    \/ closeEditModal

SpecFinish == FinishInit /\ [][FinishNext]_vars

\* C6: a handler asked to make an entry finished with no finished date (the
\* finish modal saved with its date field empty, the edit form saved with
\* status Finished and its finished-date field empty) writes nothing, and the
\* entry keeps the status it had.
C6_FinishNeedsDate ==
    ( /\ last.op \in {"confirmMarkFinished", "saveEdit"}
      /\ last.isbn \in DOMAIN books
      /\ last.status = "finished"
      /\ last.finished_date = Null
      /\ last.before # "finished" )
    => /\ ~last.wrote
       /\ books[last.isbn].status = last.before

\* the edit form saved as Finished with no date, on an entry that had none
C6_Witness ==
    /\ last.op = "saveEdit" /\ last.wrote
    /\ last.status = "finished" /\ last.finished_date = Null
    /\ last.before = "in_progress"
    /\ books[last.isbn].status = "finished"
    /\ books[last.isbn].finished_date = Null

----------------------------------------------------------------------------
(* Specification of the reading calendar                                  *)

CalendarSeeds ==
    { \* dates of last month and of yesterday
      [i \in {Isbn1, Isbn2} |->
          IF i = Isbn1
          THEN Row("book", "in_progress", Null, LastMonthDay, Null, Null, 10, 320)
          ELSE Row("book", "finished", Null, LastMonthDay, Yesterday, Null, 200, 200)],
      \* dates later than today, as the edit form and the finish modal accept them
      [i \in {Isbn1, Isbn2} |->
          IF i = Isbn1
          THEN Row("book", "in_progress", Null, NextMonthDay, Null, Null, 10, 320)
          ELSE Row("book", "finished", Null, Yesterday, Tomorrow, Null, 200, 200)] }

CalendarInit ==
    /\ \E b \in CalendarSeeds : AppLoaded(b, NoOverrides)
    /\ ParseIdle

CalendarNext ==
    \/ \E d \in Dates : toggleCalendarDay(d)
    \/ \E i \in DOMAIN books : updateProgress(i, <<"5", "0">>)
    \/ \E i \in DOMAIN books : openFinishModal(i)
    \/ \E d \in {Null, Yesterday, NextMonthDay} : TypeFinishDate(d)
    \/ confirmMarkFinished
    \/ \E i \in DOMAIN books : deleteFromRead(i)

SpecCal == CalendarInit /\ [][CalendarNext]_vars

\* C7: when a toggle of a date directly follows a toggle of the same date,
\* the date is in the active set, as the store gives it and as the calendar
\* shows it, exactly if it was before the first of the two toggles.
C7_DoubleToggleRestores ==
    (last.op = "toggleCalendarDay" /\ last.again) =>
        /\ (last.date \in loadActivityDates(books, overrides)) <=> last.first
        /\ (last.date \in activityDates) <=> last.first

\* two toggles of one date, the first of which flipped it, the second of
\* which wrote the opposite value over the first override
C7_Witness ==
    /\ last.op = "toggleCalendarDay" /\ last.again
    /\ last.date \in DOMAIN overrides
    /\ last.before # last.first
    /\ overrides[last.date] = last.first

\* C8: a date with an override row is active exactly if the row's show is
\* true, whatever dates the entries carry; a date with no override row is
\* active exactly if it is in the derived base set.
C8_OverridesWin ==
    \A d \in Dates :
        IF d \in DOMAIN overrides
        THEN (d \in activityDates) <=> overrides[d]
        ELSE (d \in activityDates) <=> (d \in computedDates)

\* a derived date hidden by an override and an underived date shown by one
C8_Witness ==
    /\ \E d \in DOMAIN overrides :
          ~overrides[d] /\ d \in computedDates /\ d \notin activityDates
    /\ \E d \in DOMAIN overrides :
          overrides[d] /\ d \notin computedDates /\ d \in activityDates

\* the dates an entry carries in its three date columns
C9_Carried(d) ==
    \E i \in DOMAIN books :
        \/ books[i].started_date = d
        \/ books[i].finished_date = d
        \/ books[i].last_progress_date = d

\* C9: the derived base set holds exactly the dates not later than today
\* that some entry carries as started, finished or last progress date.
C9_BaseSetUpToToday ==
    computedDates = {d \in Dates : C9_Carried(d) /\ d <= Today}

\* an entry carries a date later than today, another a date of last month,
\* and a progress update has stamped today
C9_Witness ==
    /\ \E d \in Dates : C9_Carried(d) /\ d > Today
    /\ LastMonthDay \in computedDates
    /\ \E i \in DOMAIN books : books[i].last_progress_date = Today

----------------------------------------------------------------------------
(* Claims on the lifecycle writes, under the specifications above *)

\* C12: Remove from list leaves the entry with no status and no
\* backlog_order, with its backlog_date, started_date, finished_date,
\* last_progress_date and current_page as they were, and leaves every other
\* entry as it was.
C12_RemoveClearsStatusAndOrder ==
    last.op = "removeFromList" =>
        /\ books[last.isbn].status = NoStatus
        /\ books[last.isbn].backlog_order = Null
        /\ \A f \in {"backlog_date", "started_date", "finished_date",
                     "last_progress_date", "current_page"} :
              books[last.isbn][f] = last.before[f]
        /\ \A i \in DOMAIN books \ {last.isbn} : books[i] = last.others[i]

\* an entry removed from the backlog that keeps the position it had
C12_Witness ==
    /\ last.op = "removeFromList"
    /\ last.before.status = "backlog" /\ last.before.backlog_order = 2
    /\ books[last.isbn].status = NoStatus
    /\ books[last.isbn].backlog_order = 2
    /\ books[last.isbn].backlog_date = last.before.backlog_date

\* the finished entries whose finished_date lies from day lo to day hi
FinishedWithin(lo, hi) ==
    {i \in DOMAIN books :
        /\ books[i].status = "finished"
        /\ books[i].finished_date # Null
        /\ books[i].finished_date >= lo /\ books[i].finished_date <= hi}

PagesOf(S) ==
    SumOver(S, [i \in DOMAIN books |->
                  IF books[i].number_of_pages = Null THEN 0
                  ELSE books[i].number_of_pages])

\* C13: pages this month is the sum of number_of_pages over the finished
\* entries whose finished_date lies inside the month of today, pages this
\* year the sum over those whose finished_date lies inside the year of
\* today; a later finished_date is not counted.
C13_StatsInsidePeriod ==
    /\ stats.pages_this_month =
          PagesOf(FinishedWithin(StartOfMonth(YearOf(Today), MonthOf(Today)),
                                 EndOfMonth(YearOf(Today), MonthOf(Today))))
    /\ stats.pages_this_year =
          PagesOf(FinishedWithin(StartOfMonth(YearOf(Today), 0),
                                 EndOfMonth(YearOf(Today), MonthsPerYear - 1)))

\* an entry finished with a date of next month, its pages in this month's sum
C13_Witness ==
    /\ \E i \in DOMAIN books :
          /\ books[i].status = "finished"
          /\ books[i].finished_date > EndOfMonth(YearOf(Today), MonthOf(Today))
          /\ books[i].number_of_pages = 320
    /\ last.op = "confirmMarkFinished" /\ last.wrote
    /\ stats.pages_this_month >= 320


----------------------------------------------------------------------------
(* Specification of an entry's life: looked up, put on the backlog,        *)
(* started, finished, removed from the list, deleted from the read list    *)

LifeIsbnTexts ==
    { <<"9", "7", "8", "0", "1", "4", "0", "3", "2", "8", "7", "2", "1">> }

\* the tables as an earlier session left them: a book taken off the list at
\* page 120, a book first in the backlog, and a finished article of which
\* table progress_events holds one update; or a book being read and a book
\* first in the backlog
LifeSeeds ==
    { [ b  |-> [i \in {Isbn1, Isbn2, ArticleId1} |->
                  IF i = Isbn1
                  THEN Row("book", NoStatus, Null, LastMonthDay, Null, LastMonthDay, 120, 320)
                  ELSE IF i = Isbn2
                  THEN Row("book", "backlog", 0, Null, Null, Null, Null, 200)
                  ELSE Row("article", "finished", Null, LastMonthDay, Yesterday,
                           Yesterday, 30, 30)],
        ev |-> {[isbn |-> ArticleId1, date |-> Yesterday, delta |-> 30]} ],
      [ b  |-> [i \in {Isbn1, Isbn2} |->
                  IF i = Isbn1
                  THEN Row("book", "in_progress", Null, Yesterday, Null, Yesterday, 10, 320)
                  ELSE Row("book", "backlog", 0, Null, Null, Null, Null, 200)],
        ev |-> {} ] }

LifeInit ==
    /\ \E seed \in LifeSeeds : StoreLoaded(seed.b, NoOverrides, seed.ev)
    /\ ParseIdle

LifeNext ==
    \/ \E text \in LifeIsbnTexts : TypeIsbn(text)
    \/ lookup("item", Null)
    \/ addToBacklog
    \/ startReadingFromLookup
    \/ markFinishedFromLookup
    \/ \E i \in DOMAIN books : startReading(i)
    \/ \E i \in DOMAIN books : openFinishModal(i)
    \/ TypeFinishDate(LastMonthDay)
    \/ confirmMarkFinished
    \/ closeFinishModal
    \/ \E i \in DOMAIN books : removeFromList(i)
    \/ \E i \in DOMAIN books : deleteFromRead(i)
    \/ \E i \in DOMAIN books :
          i \in SeqToSet(backlog) /\ moveBacklogItem(i, backlogSectionType(i), "up")

SpecLife == LifeInit /\ [][LifeNext]_vars

BacklogPeers(id, kind) ==
    {i \in DOMAIN books \ {id} :
        /\ books[i].status = "backlog"
        /\ books[i].entry_type = kind
        /\ books[i].backlog_order # Null}

\* the position after the last one of the set: max + 1, or 0 for no entry
NextOrderAfter(S) ==
    IF S = {} THEN 0
    ELSE (CHOOSE m \in {books[i].backlog_order : i \in S} :
             \A i \in S : books[i].backlog_order <= m) + 1

\* C15: the transition none -> backlog (Add to backlog on the lookup view,
\* for a stored entry with no status) sets backlog_date to today and sets
\* backlog_order to the highest backlog_order among the backlog entries of
\* the same kind plus one, or to 0 when there is none.
C15_AddToBacklogAppends ==
    (last.op = "addToBacklog" /\ last.stored /\ last.before.status = NoStatus) =>
        /\ books[last.isbn].status = "backlog"
        /\ books[last.isbn].backlog_date = Today
        /\ books[last.isbn].backlog_order
              = NextOrderAfter(BacklogPeers(last.isbn, books[last.isbn].entry_type))

\* the book off the list added to a backlog whose one book holds position 0:
\* dated today, and with no position
C15_Witness ==
    /\ last.op = "addToBacklog" /\ last.stored
    /\ last.isbn = Isbn1
    /\ last.before.status = NoStatus
    /\ books[Isbn1].status = "backlog"
    /\ books[Isbn1].backlog_date = Today
    /\ books[Isbn1].backlog_order = Null
    /\ Isbn2 \in DOMAIN books
    /\ books[Isbn2].status = "backlog" /\ books[Isbn2].backlog_order = 0

\* C16: Start reading (from the backlog or from the lookup view) sets
\* started_date, and an entry that had current_page = p > 0 before still has
\* current_page = p afterwards.
C16_StartKeepsPage ==
    ( /\ last.op \in {"startReading", "startReadingFromLookup"}
      /\ last.isbn \in DOMAIN books
      /\ last.before.status \in {"backlog", NoStatus}
      /\ last.before.current_page # Null
      /\ last.before.current_page > 0 ) =>
        /\ books[last.isbn].status = "in_progress"
        /\ books[last.isbn].started_date = Today
        /\ books[last.isbn].current_page = last.before.current_page

\* the book taken off the list at page 120 started again from the lookup
\* view: in progress, started today, at page 0
C16_Witness ==
    /\ last.op = "startReadingFromLookup" /\ last.stored
    /\ last.before.status = NoStatus
    /\ last.before.current_page = 120
    /\ books[last.isbn].status = "in_progress"
    /\ books[last.isbn].started_date = Today
    /\ books[last.isbn].current_page = 0


\* C17: in every state reached by add-to-backlog, start-reading,
\* mark-finished, remove-from-list and reorder operations, an entry has a
\* backlog_order value if and only if its status is backlog.
C17_OrderIffBacklog ==
    \A i \in DOMAIN books :
        (books[i].backlog_order # Null) <=> (books[i].status = "backlog")

\* both directions fail: the book started from the backlog is in progress
\* with its position 0, the book added to the backlog has no position
C17_Witness ==
    /\ {Isbn1, Isbn2} \subseteq DOMAIN books
    /\ books[Isbn2].status = "in_progress" /\ books[Isbn2].backlog_order = 0
    /\ books[Isbn1].status = "backlog" /\ books[Isbn1].backlog_order = Null
    /\ last.op = "startReading" /\ last.isbn = Isbn2

\* C18: an entry's status becomes finished only from in_progress or backlog:
\* no handler that has written finished found the entry with no status.
C18_FinishedOnlyFromListed ==
    ( /\ last.op = "confirmMarkFinished" /\ last.wrote
      /\ books[last.isbn].status = "finished" ) =>
        last.before \in {"in_progress", "backlog"}

\* Mark as finished on the lookup view of the stored book with no status,
\* saved with the date offered: the book is finished
C18_Witness ==
    /\ last.op = "confirmMarkFinished" /\ last.wrote
    /\ last.before = NoStatus
    /\ last.isbn = Isbn1
    /\ books[Isbn1].status = "finished"
    /\ books[Isbn1].finished_date = Today
    /\ Isbn1 \in finished

\* C19: a mark-finished transition leaves no finished entry whose
\* finished_date is earlier than its started_date, both being present.
C19_FinishedNotBeforeStarted ==
    ( /\ last.op = "confirmMarkFinished" /\ last.wrote
      /\ books[last.isbn].started_date # Null
      /\ books[last.isbn].finished_date # Null ) =>
        books[last.isbn].finished_date >= books[last.isbn].started_date

\* the book started yesterday marked finished with a date of last month
C19_Witness ==
    /\ last.op = "confirmMarkFinished" /\ last.wrote
    /\ last.before = "in_progress"
    /\ books[last.isbn].status = "finished"
    /\ books[last.isbn].started_date = Yesterday
    /\ books[last.isbn].finished_date = LastMonthDay


----------------------------------------------------------------------------
(* Specification of the ways to a record: the ISBN form, the recent list,  *)
(* the title/author search and its results, Refresh metadata               *)

ResolveTexts ==
    { <<"9", "7", "8", "0", "1", "4", "0", "3", "2", "8", "7", "2", "1">>,
      <<"1", "2", "3", "4", "5">>,
      <<"9", "7", "8", "-", "0", "1", "4", "0", "3", "2", "8", "7", "2", " ", "X">> }

\* a stored book and a stored article, both in the backlog
ResolveSeeds ==
    { [i \in {Isbn1, ArticleId1} |->
          IF i = Isbn1
          THEN Row("book", "backlog", 0, Null, Null, Null, Null, GooglePages)
          ELSE Row("article", "backlog", 1, Null, Null, Null, Null, 30)] }

ResolveInit ==
    /\ \E b \in ResolveSeeds : AppLoaded(b, NoOverrides)
    /\ ParseIdle

ResolveNext ==
    \/ \E text \in ResolveTexts : TypeIsbn(text)
    \/ \E gb \in GoogleOutcomes, ol \in OpenLibraryOutcomes : lookup(gb, ol)
    \/ \E i \in DOMAIN books, gb \in GoogleOutcomes, ol \in OpenLibraryOutcomes :
          lookupFromHistory(i, gb, ol)
    \/ \E copy \in {"fallback", "google-only"},
          gb \in {"error", "empty", "found"}, ol \in {"error", "empty", "found"} :
          searchByTitle(copy, gb, ol)
    \/ \E r \in searchResults, gb \in GoogleOutcomes, ol \in OpenLibraryOutcomes :
          selectSearchResult(r, gb, ol)
    \/ \E gb \in GoogleOutcomes, ol \in OpenLibraryOutcomes : refreshMetadata(gb, ol)
    \/ clearBook

SpecResolve == ResolveInit /\ [][ResolveNext]_vars

\* C21: Refresh metadata always asks the providers; when they answer, the
\* stored record of that id holds the new data; when they fail, the stored
\* record and the record shown are as they were.
C21_RefreshOverwrites ==
    last.op = "refreshMetadata" =>
        /\ last.gbCalls = 1
        /\ (last.ok /\ last.cached) =>
              /\ books[last.isbn].title = book.title
              /\ books[last.isbn].number_of_pages = book.number_of_pages
        /\ ~last.ok => book = last.shown

\* a refresh that Google Books answered for the stored book: the new title is
\* shown, the row holds the old one
C21_Witness ==
    /\ last.op = "refreshMetadata" /\ last.ok /\ last.cached
    /\ last.gbCalls = 1
    /\ book.isbn = Isbn1
    /\ book.title = <<"E", "x">>
    /\ books[Isbn1].title = <<"T">>


\* C22: a free-text search returns the records of exactly one provider: Open
\* Library is asked if and only if Google Books returned no record (its
\* failure included), and the records returned are never a mix of both.
C22_SearchEitherOr ==
    last.op = "searchByTitle" =>
        /\ last.gbCalls = 1
        /\ (last.olCalls = 1) <=> (last.gb \in {"error", "empty"})
        /\ last.olCalls \in {0, 1}
        /\ searchResults \subseteq GoogleResults \/ searchResults \subseteq OpenLibraryResults

\* the copy under frontend/supabase, Google Books failing: an error and no
\* request to Open Library
C22_Witness ==
    /\ last.op = "searchByTitle"
    /\ last.copy = "google-only"
    /\ last.gb = "error"
    /\ ~last.ok
    /\ last.gbCalls = 1 /\ last.olCalls = 0
    /\ searchResults = {}
    /\ error = "Google Books API error"

\* the test the specification states for an identifier: normalized, it is
\* digits only and at least 10 of them
C23_Valid(text) ==
    /\ Len(text) >= 10
    /\ \A k \in 1..Len(text) : text[k] \in Digits

\* C23: on every way to a lookup (the form, the recent list, a search
\* result, Refresh metadata) an identifier that is not valid once normalized
\* is turned down: no provider is asked and no record of it is shown.
C23_InvalidIsRejected ==
    ( /\ last.op \in {"lookup", "lookupIgnored", "refreshMetadata"}
      /\ ~C23_Valid(last.text) ) =>
        /\ last.gbCalls = 0 /\ last.olCalls = 0
        /\ last.op = "lookupIgnored" \/ ~last.ok
        /\ book.isbn # NoId => book.isbn # last.isbn

\* the search result with an ISBN-10 that ends in X, clicked: nothing asked
C23_Witness ==
    /\ last.op = "lookupIgnored"
    /\ last.via = "search"
    /\ last.isbn = "080442957X"
    /\ isbn = <<"0", "8", "0", "4", "4", "2", "9", "5", "7", "X">>
    /\ last.gbCalls = 0
    /\ searchResults = {}


----------------------------------------------------------------------------
(* Specification of reorders request by request: two runs of the up/down   *)
(* buttons may be open at once, and an update may fail                     *)

\* three books the reorder handlers have numbered
RaceSeeds ==
    { [i \in {Isbn1, Isbn2, Isbn3} |->
          BacklogRow("book", CASE i = Isbn1 -> 0 [] i = Isbn2 -> 1 [] i = Isbn3 -> 2)] }

RaceInit ==
    /\ \E b \in RaceSeeds : AppLoaded(b, NoOverrides)
    /\ ParseIdle

\* the run a new call opens: the first name no open run has
FreeOp == IF "first" \in {u.op : u \in pending} THEN "second" ELSE "first"

\* the clicks on the up/down buttons a behaviour has
MaxCalls == 2

RaceNext ==
    \/ \E i \in DOMAIN books, dir \in {"up", "down"} :
          /\ CallsSoFar < MaxCalls
          /\ i \in SeqToSet(backlog)
          /\ moveBacklogItemCall(FreeOp, i, backlogSectionType(i), dir)
    \/ \E u \in pending : ServeUpdate(u, TRUE)
    \/ \E op \in OpIds : moveBacklogItemReturn(op, FALSE)

SpecRace == RaceInit /\ [][RaceNext]_vars

\* the backlog_order values of the backlog are 0..N-1, one each
DenseBacklog ==
    /\ OrdersOf(BacklogIds) = 0..(Cardinality(BacklogIds) - 1)
    /\ \A i, j \in BacklogIds : i # j => books[i].backlog_order # books[j].backlog_order

\* C28: two reorders of the same owner running at once on the same backlog,
\* each having read the list before the other's writes and each writing one
\* backlog_order per entry, can end with duplicate or missing backlog_order
\* values (C28_Witness is such an end); a reorder during which no other ran
\* and whose writes were all served ends with the values 0..N-1, one each.
C28_RaceBreaksDensity ==
    ( /\ last.op = "moveReturn"
      /\ \A u \in last.updates : ~u.overlapped /\ u.state = "applied" ) =>
        DenseBacklog

\* both runs have returned, every update of the one that returned last was
\* served, it read the list before any update of the other was served, and
\* two books hold the same backlog_order
C28_Witness ==
    /\ last.op = "moveReturn"
    /\ pending = {}
    /\ \A u \in last.updates : u.overlapped /\ u.readFresh /\ u.state = "applied"
    /\ \E i, j \in BacklogIds : i # j /\ books[i].backlog_order = books[j].backlog_order
    /\ OrdersOf(BacklogIds) # 0..(Cardinality(BacklogIds) - 1)


\* ---- one reorder at a time, whose writes may fail ----

\* a reorder is started only when no other is in flight; each of its updates
\* is served or fails on its own, and the handler then either reloads or
\* reports "Failed to reorder"
PartialNext ==
    \/ \E i \in DOMAIN books, dir \in {"up", "down"} :
          /\ CallsSoFar < MaxCalls
          /\ pending = {}
          /\ i \in SeqToSet(backlog)
          /\ moveBacklogItemCall(FreeOp, i, backlogSectionType(i), dir)
    \/ \E u \in pending, ok \in BOOLEAN : ServeUpdate(u, ok)
    \/ \E op \in OpIds, rejected \in BOOLEAN : moveBacklogItemReturn(op, rejected)

SpecPartial == RaceInit /\ [][PartialNext]_vars

\* C29: no reorder commits in part: when one of the per-entry backlog_order
\* writes of a reorder has failed, none of that reorder's writes is visible in
\* the store afterwards (every row it wrote holds the value it had before).
C29_ReorderAllOrNothing ==
    ( /\ last.op = "moveReturn"
      /\ \A u \in last.updates : ~u.overlapped
      /\ \E u \in last.updates : u.state = "failed" ) =>
        \A u \in last.updates : books[u.isbn].backlog_order = u.was

\* the first of three books moved down, alone: the update of the other book
\* failed, its own was served, and both hold backlog_order 1
C29_Witness ==
    /\ last.op = "moveReturn"
    /\ pending = {}
    /\ \A u \in last.updates : ~u.overlapped
    /\ \E u \in last.updates : u.state = "failed" /\ u.isbn = Isbn2 /\ u.idx = 0
    /\ \E u \in last.updates :
          u.state = "applied" /\ u.isbn = Isbn1 /\ u.was = 0 /\ u.idx = 1
    /\ books[Isbn1].backlog_order = 1
    /\ books[Isbn2].backlog_order = 1


----------------------------------------------------------------------------
(* Specification of the month summary of the calendar                     *)

\* three finished books: 320 pages and no page count, both finished
\* yesterday, and 200 pages, finished last month
MonthSeeds ==
    { [i \in {Isbn1, Isbn2, Isbn3} |->
          IF i = Isbn1
          THEN Row("book", "finished", Null, LastMonthDay, Yesterday, Yesterday, 320, 320)
          ELSE IF i = Isbn2
          THEN Row("book", "finished", Null, LastMonthDay, Yesterday, Null, Null, Null)
          ELSE Row("book", "finished", Null, LastMonthDay, LastMonthDay, Null, 200, 200)] }

MonthInit ==
    /\ \E b \in MonthSeeds : AppLoaded(b, NoOverrides)
    /\ ParseIdle

\* a finished book is looked up again and read again, then taken off the
\* list; the calendar is moved from month to month
MonthNext ==
    \/ \E text \in LifeIsbnTexts : TypeIsbn(text)
    \/ lookup("item", Null)
    \/ startReadingFromLookup
    \/ \E i \in DOMAIN books : removeFromList(i)
    \/ calendarPrevMonth
    \/ calendarNextMonth

SpecMonth == MonthInit /\ [][MonthNext]_vars

\* entries whose finished_date lies inside the month the calendar shows
FinishedInShownMonth ==
    {i \in DOMAIN books :
        /\ books[i].finished_date # Null
        /\ books[i].finished_date >= StartOfMonth(calendarYear, calendarMonth)
        /\ books[i].finished_date <= EndOfMonth(calendarYear, calendarMonth)}

\* C30: the month summary loaded for a month holds, as its pages of finished
\* entries, the sum of the page counts of all entries whose finished_date lies
\* inside that month (no page count counting 0), an entry finished in the month
\* and later taken off the list included.
C30_PagesFromFinished ==
    last.op \in {"calendarPrevMonth", "calendarNextMonth"} =>
        monthSummary.pages_read =
            SumOver(FinishedInShownMonth, [i \in DOMAIN books |-> PagesOrZero(books[i])])

\* the 320-page book finished yesterday was read again and taken off the list;
\* the summary loaded for this month counts no page
C30_Witness ==
    /\ last.op = "calendarNextMonth"
    /\ calendarYear = YearOf(Today) /\ calendarMonth = MonthOf(Today)
    /\ books[Isbn1].status = NoStatus
    /\ books[Isbn1].finished_date = Yesterday
    /\ books[Isbn1].number_of_pages = 320
    /\ books[Isbn2].status = "finished"
    /\ Isbn1 \in FinishedInShownMonth
    /\ monthSummary.pages_read = 0
    /\ monthSummary.items_finished = {Isbn2}


----------------------------------------------------------------------------
(* Progress updates whose input does not parse                            *)

\* C31: a progress update whose input parses as invalid changes nothing: the
\* rows of the store (current_page and last_progress_date of the entry among
\* them), the progress events, the overrides, the in-progress list, the active
\* dates and the error shown are what they were before the update.
C31_InvalidChangesNothing ==
    [][ ( /\ last'.op = "updateProgress"
          /\ ~parsePageInput(last'.input,
                             OrZero(inProgress[last'.isbn].current_page)).ok )
        => UNCHANGED <<books, progress_events, overrides, inProgress,
                       activityDates, error>> ]_vars

\* "abc" typed into the page field of the book at page 100: nothing written
C31_Witness ==
    /\ last.op = "updateProgress"
    /\ last.isbn = Isbn1
    /\ last.input = <<"a", "b", "c">>
    /\ ~last.wrote
    /\ books[Isbn1].current_page = 100
    /\ books[Isbn1].last_progress_date = Yesterday
    /\ progress_events = {}
    /\ error = NoError


----------------------------------------------------------------------------
(* Specification of the manual add forms and the edit form                *)

\* a book being read
ManualSeeds ==
    { [i \in {Isbn1} |->
          Row("book", "in_progress", Null, Yesterday, Null, Null, 50, 320)] }

\* titles typed into a form: nothing, one space, a title between spaces
ManualTitles == { <<>>, <<" ">>, <<" ", "N", " ">> }

ManualInit ==
    /\ \E b \in ManualSeeds : AppLoaded(b, NoOverrides)
    /\ ParseIdle

ManualNext ==
    \/ \E t \in ManualTitles, st \in {"backlog", "finished"}, n \in {0, 12} :
          submitArticle(ArticleId1, t, st, n)
    \/ \E t \in ManualTitles : submitPoem(PoemId1, t, "backlog", 0)
    \/ \E i \in DOMAIN books \cap {Isbn1, ArticleId1} : openEdit(i)
    \/ \E t \in {<<>>, <<"N">>} : EditTitle(t)
    \/ EditStatus("finished")
    \/ \E d \in {Null, Yesterday} : EditDate("finished_date", d)
    \/ saveEdit
    \/ closeEditModal

SpecManual == ManualInit /\ [][ManualNext]_vars

\* C32: in every state reached by manual adds and edits, every stored entry
\* has a non-empty title.
C32_TitleNeverEmpty ==
    \A i \in DOMAIN books : books[i].title # <<>>

\* the title field of the edit form of the book being read was emptied and
\* the form saved: the row has the empty title
C32_Witness ==
    /\ last.op = "saveEdit" /\ last.wrote
    /\ last.isbn = Isbn1
    /\ books[Isbn1].title = <<>>
    /\ Isbn1 \in DOMAIN inProgress /\ inProgress[Isbn1].title = <<>>

\* the half of C32 about the add forms: a form submitted with an empty or
\* all-space title inserts no row, and an inserted row has the trimmed title
ManualAddNeedsTitle ==
    last.op = "submit" =>
        /\ last.wrote <=> last.isbn \in DOMAIN books
        /\ last.isbn \in DOMAIN books =>
              books[last.isbn].title = <<"N">>

\* C34: in every reachable state, every entry whose status is finished has a
\* finished_date, whichever operation set the status.
C34_FinishedHasDate ==
    \A i \in DOMAIN books :
        books[i].status = "finished" => books[i].finished_date # Null

\* the article form submitted with initial status Finished: the row inserted
\* is finished and has no finished_date
C34_Witness ==
    /\ last.op = "submit" /\ last.wrote
    /\ last.isbn = ArticleId1
    /\ ArticleId1 \in DOMAIN books
    /\ books[ArticleId1].status = "finished"
    /\ books[ArticleId1].finished_date = Null
    /\ ArticleId1 \in finished


----------------------------------------------------------------------------
(* Calendar toggles, request by request                                   *)

\* toggles that have returned, kept for the history
ReturnedSoFar == IF "returned" \in DOMAIN last THEN last.returned ELSE {}

\* click on a calendar cell, up to the await of the upsert: the value sent is
\* the negation of what the list on screen says
toggleCalendarDayCall(id, dateStr) ==
    /\ id \notin {u.op : u \in pending}
    /\ LET currentlyActive == dateStr \in activityDates
       IN  pending' = pending \cup
              { [ op    |-> id,
                  date  |-> dateStr,
                  show  |-> ToggleValue(currentlyActive),
                  state |-> "sent",
                  \* effective membership in the store at this moment
                  inStore    |-> dateStr \in loadActivityDates(books, overrides),
                  \* a toggle of the same date has not returned yet
                  overlapped |-> \E u \in pending : u.date = dateStr ] }
    /\ last' = [ op |-> "toggleCall", date |-> dateStr, calls |-> CallsSoFar + 1,
                 returned |-> ReturnedSoFar ]
    /\ UNCHANGED <<books, overrides, progress_events, dateIsUnique, lookupVars,
                   listVars, calendarVars, modalVars, dragVars, parseVars, posVars, authVars>>

\* the store serves the upsert of a toggle
ServeUpsert(u) ==
    /\ u \in pending
    /\ u.state = "sent"
    /\ overrides' = IF dateIsUnique THEN UpsertOverride(overrides, u.date, u.show)
                    ELSE overrides
    /\ pending' = (pending \ {u}) \cup {[u EXCEPT !.state = "served"]}
    /\ last' = [ op |-> "serveUpsert", date |-> u.date, calls |-> CallsSoFar,
                 returned |-> ReturnedSoFar ]
    /\ UNCHANGED <<books, progress_events, dateIsUnique, lookupVars, listVars,
                   calendarVars, modalVars, dragVars, parseVars, posVars, authVars>>

\* the rest of toggleCalendarDay: loadActivityDates
toggleCalendarDayReturn(u) ==
    /\ u \in pending
    /\ u.state = "served"
    /\ pending' = pending \ {u}
    /\ UNCHANGED <<books, overrides, progress_events, dateIsUnique>>
    /\ ReloadActivityDates
    /\ last' = [ op |-> "toggleReturn", date |-> u.date, calls |-> CallsSoFar,
                 returned |-> ReturnedSoFar \cup {u} ]
    /\ UNCHANGED <<lookupVars, listVars, monthSummary, calendarYear, calendarMonth,
                   modalVars, dragVars, parseVars, posVars, authVars>>

ToggleInit ==
    /\ \E b \in CalendarSeeds : AppLoaded(b, NoOverrides)
    /\ ParseIdle

ToggleNext ==
    \/ \E d \in {Yesterday, Today} :
          /\ CallsSoFar < MaxCalls
          /\ Cardinality(pending) < Cardinality(OpIds)
          /\ toggleCalendarDayCall(FreeOp, d)
    \/ \E u \in pending : ServeUpsert(u)
    \/ \E u \in pending : toggleCalendarDayReturn(u)

SpecToggle == ToggleInit /\ [][ToggleNext]_vars

\* C33: a toggle writes the negation of the date's effective membership in
\* the store at the time of the toggle, also when it starts before the reload
\* of an earlier toggle of the same date has completed.
C33_ToggleNegatesStore ==
    \A u \in pending : u.show = ~u.inStore

\* a second click on yesterday, active at first, before the first click's
\* reload: both toggles wrote show = false, and after both have returned the
\* date is off, not what it was before the two toggles
C33_Witness ==
    /\ last.op = "toggleReturn"
    /\ pending = {}
    /\ dateIsUnique
    /\ \E a, b \in last.returned :
          /\ a.op # b.op
          /\ a.date = Yesterday /\ b.date = Yesterday
          /\ ~a.overlapped /\ a.inStore /\ ~a.show
          /\ b.overlapped /\ ~b.show
    /\ Yesterday \notin activityDates
    /\ Yesterday \notin loadActivityDates(books, overrides)


----------------------------------------------------------------------------
(* Progress updates, request by request                                   *)

\* @change of the page field, up to the await of the update: the page sent is
\* computed from the text typed and the page the list on screen shows
updateProgressCall(id, isbnVal, currentPageInput) ==
    /\ id \notin {u.op : u \in pending}
    /\ isbnVal \in DOMAIN inProgress
    /\ LET currentPageCurrent == OrZero(inProgress[isbnVal].current_page)
           page == parsePageInput(currentPageInput, currentPageCurrent)
       IN  IF ~page.ok \/ page.page < 0
           THEN UNCHANGED pending
           ELSE /\ page.page <= MaxPage
                /\ pending' = pending \cup
                      { [ op       |-> id,
                          isbn     |-> isbnVal,
                          input    |-> currentPageInput,
                          page     |-> page.page,
                          shown    |-> currentPageCurrent,
                          state    |-> "sent",
                          was      |-> Null,
                          updated  |-> NoBook,
                          overlapped |-> \E u \in pending : u.isbn = isbnVal ] }
    /\ last' = [ op |-> "progressCall", isbn |-> isbnVal, input |-> currentPageInput,
                 calls |-> CallsSoFar + 1, returned |-> ReturnedSoFar ]
    /\ UNCHANGED <<books, overrides, progress_events, dateIsUnique, lookupVars,
                   listVars, calendarVars, modalVars, dragVars, parseVars, posVars, authVars>>

\* the store serves the update and answers with the row as it now is
ServeProgress(u) ==
    /\ u \in pending
    /\ u.state = "sent"
    /\ u.isbn \in DOMAIN books
    /\ books' = UpdateWhereIsbn(books, u.isbn,
                   [current_page |-> u.page, last_progress_date |-> Today])
    /\ pending' = (pending \ {u}) \cup
          { [u EXCEPT !.state = "served",
                      !.was = OrZero(books[u.isbn].current_page),
                      !.updated = books'[u.isbn]] }
    /\ last' = [ op |-> "serveProgress", isbn |-> u.isbn, calls |-> CallsSoFar,
                 returned |-> ReturnedSoFar ]
    /\ UNCHANGED <<overrides, progress_events, dateIsUnique, lookupVars, listVars,
                   calendarVars, modalVars, dragVars, parseVars, posVars, authVars>>

\* the rest of updateProgress: the answered row replaces the item of the
\* in-progress list, then loadActivityDates
updateProgressReturn(u) ==
    /\ u \in pending
    /\ u.state = "served"
    /\ pending' = pending \ {u}
    /\ UNCHANGED <<books, overrides, progress_events, dateIsUnique>>
    /\ inProgress' = IF u.isbn \in DOMAIN inProgress
                     THEN [inProgress EXCEPT ![u.isbn] = u.updated]
                     ELSE loadInProgress(books)
    /\ ReloadActivityDates
    /\ last' = [ op |-> "progressReturn", isbn |-> u.isbn, calls |-> CallsSoFar,
                 returned |-> ReturnedSoFar \cup {u} ]
    /\ UNCHANGED <<lookupVars, backlog, finished, stats, monthSummary, calendarYear,
                   calendarMonth, modalVars, dragVars, parseVars, posVars, authVars>>

\* the relative input "+20" and the absolute input "160"
PlusTwenty == <<"+", "2", "0">>

StepInit ==
    /\ \E b \in ProgressSeeds : AppLoaded(b, NoOverrides)
    /\ ParseIdle

StepNext ==
    \/ \E i \in DOMAIN books, t \in {PlusTwenty, <<"1", "6", "0">>, <<"a", "b", "c">>} :
          /\ CallsSoFar < MaxCalls
          /\ Cardinality(pending) < Cardinality(OpIds)
          /\ updateProgressCall(FreeOp, i, t)
    \/ \E u \in pending : ServeProgress(u)
    \/ \E u \in pending : updateProgressReturn(u)

SpecStep == StepInit /\ [][StepNext]_vars

\* C35: each successful relative update "+k" raises the stored current_page
\* by exactly k, also when it is issued before the response of an earlier
\* update has refreshed the page shown.
C35_RelativeAddsK ==
    \A u \in pending :
        (u.state = "served" /\ u.input = PlusTwenty) => u.page = u.was + 20

\* "+20" entered twice for the book at page 100, the second before the first
\* had refreshed the list: both updates were served and have returned, and
\* the stored page is 120
C35_Witness ==
    /\ last.op = "progressReturn"
    /\ pending = {}
    /\ \E a, b \in last.returned :
          /\ a.op # b.op
          /\ a.isbn = Isbn1 /\ b.isbn = Isbn1
          /\ a.input = PlusTwenty /\ b.input = PlusTwenty
          /\ a.shown = 100 /\ b.shown = 100
          /\ ~a.overlapped /\ b.overlapped
    /\ books[Isbn1].current_page = 120
    /\ inProgress[Isbn1].current_page = 120


----------------------------------------------------------------------------
(* Lookups, request by request                                            *)

\* isbn of the lookup requested last
LatestSoFar == IF "latest" \in DOMAIN last THEN last.latest ELSE NoId

\* click on a history item, up to the await of lookup(): no test of loading
lookupFromHistoryCall(id, item) ==
    /\ id \notin {u.op : u \in pending}
    /\ item \in DOMAIN books
    /\ isbn' = Chars(item)
    /\ IF ~CanSubmitText(Chars(item))
       THEN /\ UNCHANGED <<book, error, loading, pending>>
            /\ last' = [ op |-> "lookupCall", isbn |-> item, sent |-> FALSE,
                         calls |-> CallsSoFar + 1, latest |-> LatestSoFar,
                         returned |-> ReturnedSoFar ]
       ELSE /\ error' = NoError
            /\ book' = NoBook
            /\ loading' = TRUE
            /\ pending' = pending \cup
                  { [ op   |-> id,
                      isbn |-> Join(CleanIsbn(Chars(item))),
                      text |-> CleanIsbn(Chars(item)),
                      seq  |-> CallsSoFar + 1,
                      ok   |-> FALSE,
                      overlapped |-> pending # {} ] }
            /\ last' = [ op |-> "lookupCall", isbn |-> item, sent |-> TRUE,
                         calls |-> CallsSoFar + 1,
                         latest |-> Join(CleanIsbn(Chars(item))),
                         returned |-> ReturnedSoFar ]
    /\ UNCHANGED <<books, overrides, progress_events, dateIsUnique, searchResults,
                   listVars, calendarVars, modalVars, dragVars, parseVars, posVars, authVars>>

\* the answer of isbn-lookup arrives and the rest of lookup() runs: try,
\* catch and finally
LookupResponse(u, gb, ol) ==
    /\ u \in pending
    /\ LET resp == IsbnLookupFunction(u.text, gb, ol)
       IN  /\ book' = IF resp.ok THEN resp.data ELSE book
           /\ error' = IF resp.ok THEN error ELSE resp.error
           /\ loading' = FALSE
           /\ pending' = pending \ {u}
           /\ UNCHANGED <<books, overrides, progress_events, dateIsUnique>>
           /\ IF resp.ok
              THEN refreshReadingLog
              ELSE UNCHANGED <<listVars, activityDates, computedDates>>
           /\ last' = [ op |-> "lookupResponse", isbn |-> u.isbn, ok |-> resp.ok,
                        calls |-> CallsSoFar, latest |-> LatestSoFar,
                        returned |-> ReturnedSoFar \cup {[u EXCEPT !.ok = resp.ok]} ]
    /\ UNCHANGED <<isbn, searchResults, monthSummary, calendarYear, calendarMonth,
                   modalVars, dragVars, parseVars, posVars, authVars>>

\* two books and an article, looked up earlier
FlightSeeds ==
    { [i \in {Isbn1, Isbn2, ArticleId1} |->
          IF i = Isbn1 THEN Row("book", "backlog", 0, Null, Null, Null, Null, 320)
          ELSE IF i = Isbn2 THEN Row("book", "backlog", 1, Null, Null, Null, Null, 200)
          ELSE Row("article", "backlog", 2, Null, Null, Null, Null, 30)] }

FlightInit ==
    /\ \E b \in FlightSeeds : AppLoaded(b, NoOverrides)
    /\ ParseIdle

FlightNext ==
    \/ \E i \in DOMAIN books :
          /\ CallsSoFar < MaxCalls
          /\ Cardinality(pending) < Cardinality(OpIds)
          /\ lookupFromHistoryCall(FreeOp, i)
    \/ \E u \in pending, gb \in GoogleOutcomes, ol \in OpenLibraryOutcomes :
          LookupResponse(u, gb, ol)

SpecFlight == FlightInit /\ [][FlightNext]_vars

\* C36: loading is false only when no lookup is in flight, and when all
\* lookups have completed, each with a record, the book shown is the result
\* of the lookup requested last.
C36_LastRequestedShown ==
    /\ ~loading => pending = {}
    /\ ( /\ last.op = "lookupResponse"
         /\ pending = {}
         /\ \A r \in last.returned : r.ok ) => book.isbn = last.latest

\* two history clicks, first book first; the answer for the second book
\* arrived before the answer for the first: the first book is shown
C36_Witness ==
    /\ last.op = "lookupResponse"
    /\ pending = {}
    /\ ~loading
    /\ \E a, b \in last.returned :
          /\ a.isbn = Isbn1 /\ a.seq = 1 /\ a.ok /\ ~a.overlapped
          /\ b.isbn = Isbn2 /\ b.seq = 2 /\ b.ok /\ b.overlapped
    /\ last.isbn = Isbn1
    /\ last.latest = Isbn2
    /\ isbn = Chars(Isbn2)
    /\ book.isbn = Isbn1


----------------------------------------------------------------------------
(* The navigation guard of the router                                     *)

\* names of the routes table; login alone has meta.public
Routes == {"login", "home", "backlog", "read", "stats", "lookup"}

PublicRoutes == {"login"}

\* variant of GuardDecide that admits every navigation
GuardDecideAdmitAll(to, waited) ==
    /\ route' = to
    /\ navigation' = NoId
    /\ last' = [ op |-> "guard", to |-> to, outcome |-> "admit", waited |-> waited,
                 user |-> user, loading |-> authLoading ]

\* the end of the guard, lines 63-66: to login when no user, else admitted.
\* The redirect is a navigation to the public route, which the guard admits.
GuardDecide(to, waited) ==
    /\ route' = IF user = NoId THEN "login" ELSE to
    /\ navigation' = NoId
    /\ last' = [ op |-> "guard", to |-> to,
                 outcome |-> IF user = NoId THEN "redirect" ELSE "admit",
                 waited |-> waited, user |-> user, loading |-> authLoading ]

\* router.beforeEach for a navigation to route `to`, up to its await
beforeEach(to) ==
    /\ navigation = NoId
    /\ IF to \in PublicRoutes
       THEN /\ route' = to
            /\ UNCHANGED navigation
            /\ last' = [ op |-> "guard", to |-> to, outcome |-> "admit",
                         waited |-> FALSE, user |-> user, loading |-> authLoading ]
       ELSE IF authLoading
       THEN /\ navigation' = to
            /\ UNCHANGED route
            /\ last' = [op |-> "guardWaits", to |-> to]
       ELSE GuardDecide(to, FALSE)
    /\ UNCHANGED <<user, authLoading, storeVars, lookupVars, listVars, calendarVars,
                   modalVars, dragVars, parseVars, posVars>>

\* a tick of the guard's interval that finds loading false: the promise
\* resolves and the guard goes on
GuardPoll ==
    /\ navigation # NoId
    /\ ~authLoading
    /\ GuardDecide(navigation, TRUE)
    /\ UNCHANGED <<user, authLoading, storeVars, lookupVars, listVars, calendarVars,
                   modalVars, dragVars, parseVars, posVars>>

\* useAuth: the initial auth check ends, with a session or without
AuthCheckDone(u) ==
    /\ authLoading
    /\ authLoading' = FALSE
    /\ user' = u
    /\ last' = [op |-> "authCheckDone"]
    /\ UNCHANGED <<route, navigation, storeVars, lookupVars, listVars, calendarVars,
                   modalVars, dragVars, parseVars, posVars>>

\* useAuth: sign-in on the login page (u a user), sign-out from the header
\* (u = NoId)
AuthChange(u) ==
    /\ ~authLoading
    /\ u # user
    /\ user = NoId \/ u = NoId
    /\ user' = u
    /\ last' = [op |-> "authChange"]
    /\ UNCHANGED <<authLoading, route, navigation, storeVars, lookupVars, listVars,
                   calendarVars, modalVars, dragVars, parseVars, posVars>>

\* the page is opened: nothing loaded, the auth check under way
GuardInit ==
    /\ ClientLoaded(NoRows, NoOverrides, {})
    /\ ParseIdle
    /\ user = NoId
    /\ authLoading = TRUE
    /\ route = NoId
    /\ navigation = NoId

GuardNext ==
    \/ \E to \in Routes : beforeEach(to)
    \/ GuardPoll
    \/ \E u \in {NoId, "owner", "guest"} : AuthCheckDone(u)
    \/ \E u \in {NoId, "owner", "guest"} : AuthChange(u)

SpecGuard == GuardInit /\ [][GuardNext]_vars

\* C37: the guard admits a navigation to a non-public route only with a user
\* signed in, decides on it only when the initial auth check has finished,
\* sends it to login when there is no user, and always admits the login route.
C37_GuardKeepsOut ==
    last.op = "guard" =>
        /\ last.to \notin PublicRoutes => ~last.loading
        /\ (last.to \notin PublicRoutes /\ last.outcome = "admit") =>
              last.user # NoId /\ route = last.to
        /\ (last.to \notin PublicRoutes /\ last.user = NoId) =>
              last.outcome = "redirect" /\ route = "login"
        /\ last.to \in PublicRoutes => last.outcome = "admit" /\ route = "login"

\* the backlog page was asked for while the auth check was under way; the
\* check ended with no session, and the guard sent the navigation to login
C37_Witness ==
    /\ last.op = "guard"
    /\ last.to = "backlog"
    /\ last.waited
    /\ last.user = NoId
    /\ last.outcome = "redirect"
    /\ route = "login"
    /\ navigation = NoId


----------------------------------------------------------------------------
(* The position field of a backlog item                                   *)

\* variant of startPosEdit that leaves posEditEscaped as it is
startPosEditKeepsFlag(isbnVal) ==
    /\ editingPosIsbn = NoId /\ inputRemoved = NoEdit
    /\ isbnVal \in SeqToSet(backlog)
    /\ editingPosIsbn' = isbnVal
    /\ editingPosValue' =
          FindIndex(SectionItems(backlogSectionType(isbnVal)), isbnVal) + 1
    /\ UNCHANGED <<posEditEscaped, inputRemoved>>
    /\ last' = [op |-> "startPosEdit", isbn |-> isbnVal]
    /\ UNCHANGED <<storeVars, lookupVars, listVars, calendarVars, modalVars,
                   dragVars, parseVars, authVars>>

\* click on the position of a backlog item: startPosEdit(item.isbn, index + 1)
startPosEdit(isbnVal) ==
    /\ editingPosIsbn = NoId /\ inputRemoved = NoEdit
    /\ isbnVal \in SeqToSet(backlog)
    /\ editingPosIsbn' = isbnVal
    /\ editingPosValue' =
          FindIndex(SectionItems(backlogSectionType(isbnVal)), isbnVal) + 1
    /\ posEditEscaped' = FALSE
    /\ UNCHANGED inputRemoved
    /\ last' = [op |-> "startPosEdit", isbn |-> isbnVal]
    /\ UNCHANGED <<storeVars, lookupVars, listVars, calendarVars, modalVars,
                   dragVars, parseVars, authVars>>

\* v-model.number of the open field: a number, or Null for an emptied field
TypePos(v) ==
    /\ editingPosIsbn # NoId
    /\ editingPosValue' = v
    /\ UNCHANGED <<editingPosIsbn, posEditEscaped, inputRemoved>>
    /\ last' = [op |-> "typePos"]
    /\ UNCHANGED <<storeVars, lookupVars, listVars, calendarVars, modalVars,
                   dragVars, parseVars, authVars>>

\* Escape in the open field: cancelPosEdit; the field, focused, leaves the page
cancelPosEdit ==
    /\ editingPosIsbn # NoId
    /\ posEditEscaped' = TRUE
    /\ editingPosIsbn' = NoId
    /\ inputRemoved' = [isbn |-> editingPosIsbn, by |-> "escape"]
    /\ UNCHANGED editingPosValue
    /\ last' = [op |-> "cancelPosEdit", isbn |-> editingPosIsbn]
    /\ UNCHANGED <<storeVars, lookupVars, listVars, calendarVars, modalVars,
                   dragVars, parseVars, authVars>>

\* applyPosEdit(isbnVal, sectionType), called by `via`; the caller says what
\* becomes of inputRemoved
applyPosEdit(isbnVal, sectionType, via) ==
    IF posEditEscaped
    THEN /\ posEditEscaped' = FALSE
         /\ UNCHANGED <<editingPosIsbn, editingPosValue>>
         /\ last' = [ op |-> "applyPosEdit", via |-> via, isbn |-> isbnVal,
                      called |-> FALSE ]
         /\ UNCHANGED <<storeVars, lookupVars, listVars, calendarVars, modalVars,
                        dragVars, parseVars, authVars>>
    ELSE /\ editingPosIsbn' = NoId
         /\ UNCHANGED <<editingPosValue, posEditEscaped>>
         /\ IF editingPosValue = Null
            THEN /\ last' = [ op |-> "applyPosEdit", via |-> via, isbn |-> isbnVal,
                              called |-> FALSE ]
                 /\ UNCHANGED <<storeVars, lookupVars, listVars, calendarVars,
                                modalVars, dragVars, parseVars, authVars>>
            ELSE moveBacklogItemToPosition(isbnVal, sectionType, editingPosValue)

\* Enter in the open field; the field, focused, leaves the page
PosEnter ==
    /\ editingPosIsbn # NoId
    /\ applyPosEdit(editingPosIsbn, backlogSectionType(editingPosIsbn), "enter")
    /\ inputRemoved' = [isbn |-> editingPosIsbn, by |-> "enter"]

\* the open field loses the focus (a click elsewhere)
PosBlur ==
    /\ editingPosIsbn # NoId
    /\ applyPosEdit(editingPosIsbn, backlogSectionType(editingPosIsbn), "blur")
    /\ UNCHANGED inputRemoved

\* the field that left the page while focused: the browser dispatches blur on
\* it before anything else happens (fires), or dispatches none
RemovalBlur(fires) ==
    /\ inputRemoved # NoEdit
    /\ inputRemoved' = NoEdit
    /\ IF fires /\ inputRemoved.isbn \in DOMAIN books
       THEN applyPosEdit(inputRemoved.isbn, backlogSectionType(inputRemoved.isbn),
                         "removal")
       ELSE /\ UNCHANGED <<editingPosIsbn, editingPosValue, posEditEscaped>>
            /\ last' = [op |-> "noBlur"]
            /\ UNCHANGED <<storeVars, lookupVars, listVars, calendarVars, modalVars,
                           dragVars, parseVars, authVars>>

PosEditNext ==
    \/ \E i \in DOMAIN books : startPosEdit(i)
    \/ \E v \in {Null} \cup 0..MaxPosition : TypePos(v)
    \/ cancelPosEdit
    \/ PosEnter
    \/ PosBlur
    \/ \E fires \in BOOLEAN : RemovalBlur(fires)

SpecPosEdit == RaceInit /\ [][PosEditNext]_vars

\* C38: cancelling a position edit with Escape never moves the item, nor does
\* the blur that follows the removal of the field; and whenever a position
\* field is open the escaped flag is clear, so that Enter in it calls
\* moveBacklogItemToPosition for its item with the number it holds.
C38_EscapeNeverMoves ==
    /\ [](editingPosIsbn # NoId => ~posEditEscaped)
    /\ [][ /\ ( \/ last'.op = "cancelPosEdit"
                \/ (inputRemoved # NoEdit /\ inputRemoved.by = "escape") )
              => /\ UNCHANGED <<books, backlog>>
                 /\ last'.op # "reorder"
           /\ ( /\ inputRemoved' # NoEdit /\ inputRemoved'.by = "enter"
                /\ editingPosValue # Null )
              => /\ last'.op = "reorder"
                 /\ last'.via = "position"
                 /\ last'.isbn = editingPosIsbn
                 /\ last'.arg = editingPosValue ]_vars

\* 3 was typed into the field of the first book and Escape pressed; the
\* blur of the removed field came and called applyPosEdit, which cleared the
\* flag and moved nothing
C38_Witness ==
    /\ last.op = "applyPosEdit" /\ last.via = "removal" /\ ~last.called
    /\ last.isbn = Isbn1
    /\ editingPosValue = 3
    /\ editingPosIsbn = NoId
    /\ inputRemoved = NoEdit
    /\ ~posEditEscaped
    /\ backlog = <<Isbn1, Isbn2, Isbn3>>
    /\ books[Isbn1].backlog_order = 0

====
